---- MODULE Spec2Model ----
(***************************************************************************)
(* A model of the StateMachine class of src/src/stateMachine.js: the       *)
(* constructor's validation and the provide operation, with the caller's   *)
(* hook functions instrumented so that every invocation is recorded.       *)
(***************************************************************************)
EXTENDS Integers, Sequences, FiniteSets, TLC

VARIABLES
    args,       \* the arguments the caller passes (passed) to the constructor
    machine,    \* the private fields of the StateMachine instance, once built
    pc,         \* "new": not constructed yet, "ready": constructed, "failed": the constructor threw
    thrown,     \* the Error thrown by the last operation, or NoError
    calls,      \* one record per provide call made so far, oldest first
    chained,    \* the last provide call was made on the value the call before it returned
    stack       \* the provide calls in progress, the innermost last, where the run is followed statement by statement

vars == <<args, machine, pc, thrown, calls, chained, stack>>

(***************************************************************************)
(* Bounds of the model.                                                    *)
(***************************************************************************)
\* the largest number of entries of a transition function Map drawn in Init
MaxEntries == 2
\* the largest number of provide calls made on one machine
MaxCalls == 3

(***************************************************************************)
(* JavaScript values.  States and input symbols are strings; every other   *)
(* value is a record tagged with its run-time type.  A Set keeps its       *)
(* elements in insertion order, a Map its entries in insertion order.      *)
(***************************************************************************)
Undefined == [type |-> "undefined"]
Null == [type |-> "null"]
NumberOf(value) == [type |-> "number", value |-> value]
SetOf(elems) == [type |-> "Set", elems |-> elems]
MapOf(entries) == [type |-> "Map", entries |-> entries]
PairOf(first, second) == [type |-> "Pair", first |-> first, second |-> second]
FunctionOf(body) == [type |-> "Function", body |-> body]

Range(seq) == {seq[i] : i \in DOMAIN seq}

\* value instanceof type
isInstanceOf(value, type) == value.type = type

\* Set.prototype.has
SetHas(set, value) == value \in Range(set.elems)

\* Set.prototype.size, Map.prototype.size
SetSize(set) == Len(set.elems)
MapSize(map) == Len(map.entries)

\* Map.prototype.has, on a Map whose keys are strings
MapHas(map, key) == \E i \in DOMAIN map.entries : map.entries[i].key = key

\* equals, comparing the first components only
equals_FirstOnly(pair0, pair1) == pair0.first = pair1.first

\* Pair.prototype.equals: structural equality of the two components
equals(pair0, pair1) == pair0.first = pair1.first /\ pair0.second = pair1.second

\* hasAll(superset, subset) of the collections library
hasAll(superset, subset) == \A i \in DOMAIN subset.elems : SetHas(superset, subset.elems[i])

\* Set.prototype.entries: [value, value] for each element, in insertion order
SetEntries(set) == [i \in DOMAIN set.elems |-> [key |-> set.elems[i], value |-> set.elems[i]]]

\* the default parameter values of the constructor
IMMUTABLE_EMPTY_SET == SetOf(<<>>)
DefaultTransitionFunction == FunctionOf("noop")

(***************************************************************************)
(* Errors.  An Error carries the message of the source, as the template    *)
(* and the values interpolated into it.                                    *)
(***************************************************************************)
\* an Error that carries no message of its own, as Assertions.isTrue throws
\* when it is called without a message
Error_Generic(message, params) == [message |-> "Assertion failed.", params |-> <<>>]

NoError == [message |-> "", params |-> <<>>]
Error(message, params) == [message |-> message, params |-> params]

\* Assertions.isTrue(condition, message)
isTrue(condition, message, params) == IF condition THEN NoError ELSE Error(message, params)

(***************************************************************************)
(* The constructor.                                                        *)
(***************************************************************************)
\* the checks on one entry, with the key's input checked before the key's state
EntryError_SymbolBeforeState(transitionState, currentStateAndInput, inputAlphabet, states) ==
    IF ~isInstanceOf(currentStateAndInput, "Pair")
    THEN Error("The current state and input is not a Pair.", <<>>)
    ELSE IF ~SetHas(inputAlphabet, currentStateAndInput.second)
    THEN Error("The input is unknown.", <<currentStateAndInput.second>>)
    ELSE IF ~SetHas(states, currentStateAndInput.first)
    THEN Error("The state is unknown.", <<currentStateAndInput.first>>)
    ELSE isTrue(SetHas(states, transitionState),
                "The transition state is unknown.", <<transitionState>>)

\* the checks on one entry, without the check of the transition state
EntryError_NoDestinationCheck(transitionState, currentStateAndInput, inputAlphabet, states) ==
    IF ~isInstanceOf(currentStateAndInput, "Pair")
    THEN Error("The current state and input is not a Pair.", <<>>)
    ELSE IF ~SetHas(states, currentStateAndInput.first)
    THEN Error("The state is unknown.", <<currentStateAndInput.first>>)
    ELSE isTrue(SetHas(inputAlphabet, currentStateAndInput.second),
                "The input is unknown.", <<currentStateAndInput.second>>)

\* the four checks made on one entry of the transition function, in the order
\* of the source; the Error of the first check that fails, or NoError
EntryError(transitionState, currentStateAndInput, inputAlphabet, states) ==
    IF ~isInstanceOf(currentStateAndInput, "Pair")
    THEN Error("The current state and input is not a Pair.", <<>>)
    ELSE IF ~SetHas(states, currentStateAndInput.first)
    THEN Error("The state is unknown.", <<currentStateAndInput.first>>)
    ELSE IF ~SetHas(inputAlphabet, currentStateAndInput.second)
    THEN Error("The input is unknown.", <<currentStateAndInput.second>>)
    ELSE isTrue(SetHas(states, transitionState),
                "The transition state is unknown.", <<transitionState>>)

\* stateTransitionFunction.forEach over the entries from position index on:
\* the Error of the first entry, in iteration order, that fails a check
RECURSIVE EntriesError(_, _, _, _)
EntriesError(entries, index, inputAlphabet, states) ==
    IF index > Len(entries) THEN NoError
    ELSE LET error == EntryError(entries[index].value, entries[index].key,
                                 inputAlphabet, states)
         IN  IF error # NoError THEN error
             ELSE EntriesError(entries, index + 1, inputAlphabet, states)

\* the determinism check, comparing the keys with === and not with equals:
\* the keys of a Map at two different positions are never the same object
DeterminismError_ByIdentity(entries, index0, index1) == NoError

\* the nested keys().map of the determinism check: index0 in iteration order
\* and, for each index0, index1 in iteration order (positions count from 0)
RECURSIVE DeterminismError(_, _, _)
DeterminismError(entries, index0, index1) ==
    IF index0 >= Len(entries) THEN NoError
    ELSE IF index1 >= Len(entries) THEN DeterminismError(entries, index0 + 1, 0)
    ELSE IF index0 # index1 /\ equals(entries[index0 + 1].key, entries[index1 + 1].key)
    THEN Error("Non-deterministic transition function. Entries at indexes.",
               <<index0, index1>>)
    ELSE DeterminismError(entries, index0, index1 + 1)

\* the check of the final states, reporting the last unknown element
FinalStatesError_ReportsLast(elems, index, states) ==
    IF \A i \in index..Len(elems) : SetHas(states, elems[i]) THEN NoError
    ELSE Error("Unknown final state.",
               <<elems[CHOOSE i \in index..Len(elems) :
                          /\ ~SetHas(states, elems[i])
                          /\ \A j \in (i + 1)..Len(elems) : SetHas(states, elems[j])]>>)

\* finalStates.forEach from position index on
RECURSIVE FinalStatesError(_, _, _)
FinalStatesError(elems, index, states) ==
    IF index > Len(elems) THEN NoError
    ELSE IF ~SetHas(states, elems[index])
    THEN Error("Unknown final state.", <<elems[index]>>)
    ELSE FinalStatesError(elems, index + 1, states)

\* the validation, with the final states checked before the transition function
ConstructorError_FinalStatesBeforeTransitions(inputAlphabet, states, initialState, stateTransitionFunction, finalStates, startTransitionFunction, endTransitionFunction) ==
    IF ~isInstanceOf(inputAlphabet, "Set")
    THEN Error("Input alphabet is not a Set.", <<>>)
    ELSE IF ~(SetSize(inputAlphabet) > 0)
    THEN Error("Input alphabet is empty.", <<>>)
    ELSE IF ~isInstanceOf(states, "Set")
    THEN Error("The 'states' argument must be a Set.", <<>>)
    ELSE IF ~(SetSize(states) > 0)
    THEN Error("The 'states' argument is empty.", <<>>)
    ELSE IF ~SetHas(states, initialState)
    THEN Error("The initial state is unknown.", <<initialState>>)
    ELSE IF ~isInstanceOf(finalStates, "Set")
    THEN Error("The 'finalStates' argument is not a Set.", <<>>)
    ELSE IF FinalStatesError(finalStates.elems, 1, states) # NoError
    THEN FinalStatesError(finalStates.elems, 1, states)
    ELSE IF ~hasAll(states, finalStates)
    THEN Error("Assertion failed.", <<>>)
    ELSE IF ~isInstanceOf(stateTransitionFunction, "Map")
    THEN Error("The state transition function is not a Map.", <<>>)
    ELSE IF ~(MapSize(stateTransitionFunction) > 0)
    THEN Error("The state transition function is empty.", <<>>)
    ELSE IF EntriesError(stateTransitionFunction.entries, 1, inputAlphabet, states) # NoError
    THEN EntriesError(stateTransitionFunction.entries, 1, inputAlphabet, states)
    ELSE IF DeterminismError(stateTransitionFunction.entries, 0, 0) # NoError
    THEN DeterminismError(stateTransitionFunction.entries, 0, 0)
    ELSE IF ~isInstanceOf(startTransitionFunction, "Function")
    THEN Error("The start transition function is not a function.", <<>>)
    ELSE IF ~isInstanceOf(endTransitionFunction, "Function")
    THEN Error("The end transition function is not a function.", <<>>)
    ELSE NoError

\* the validation, with the end hook checked before the start hook
ConstructorError_EndHookBeforeStart(inputAlphabet, states, initialState, stateTransitionFunction, finalStates, startTransitionFunction, endTransitionFunction) ==
    IF ~isInstanceOf(inputAlphabet, "Set")
    THEN Error("Input alphabet is not a Set.", <<>>)
    ELSE IF ~(SetSize(inputAlphabet) > 0)
    THEN Error("Input alphabet is empty.", <<>>)
    ELSE IF ~isInstanceOf(states, "Set")
    THEN Error("The 'states' argument must be a Set.", <<>>)
    ELSE IF ~(SetSize(states) > 0)
    THEN Error("The 'states' argument is empty.", <<>>)
    ELSE IF ~SetHas(states, initialState)
    THEN Error("The initial state is unknown.", <<initialState>>)
    ELSE IF ~isInstanceOf(stateTransitionFunction, "Map")
    THEN Error("The state transition function is not a Map.", <<>>)
    ELSE IF ~(MapSize(stateTransitionFunction) > 0)
    THEN Error("The state transition function is empty.", <<>>)
    ELSE IF EntriesError(stateTransitionFunction.entries, 1, inputAlphabet, states) # NoError
    THEN EntriesError(stateTransitionFunction.entries, 1, inputAlphabet, states)
    ELSE IF DeterminismError(stateTransitionFunction.entries, 0, 0) # NoError
    THEN DeterminismError(stateTransitionFunction.entries, 0, 0)
    ELSE IF ~isInstanceOf(finalStates, "Set")
    THEN Error("The 'finalStates' argument is not a Set.", <<>>)
    ELSE IF FinalStatesError(finalStates.elems, 1, states) # NoError
    THEN FinalStatesError(finalStates.elems, 1, states)
    ELSE IF ~hasAll(states, finalStates)
    THEN Error("Assertion failed.", <<>>)
    ELSE IF ~isInstanceOf(endTransitionFunction, "Function")
    THEN Error("The end transition function is not a function.", <<>>)
    ELSE IF ~isInstanceOf(startTransitionFunction, "Function")
    THEN Error("The start transition function is not a function.", <<>>)
    ELSE NoError

\* the validation, without the check of the initial state against the states
ConstructorError_NoInitialStateCheck(inputAlphabet, states, initialState, stateTransitionFunction, finalStates, startTransitionFunction, endTransitionFunction) ==
    IF ~isInstanceOf(inputAlphabet, "Set")
    THEN Error("Input alphabet is not a Set.", <<>>)
    ELSE IF ~(SetSize(inputAlphabet) > 0)
    THEN Error("Input alphabet is empty.", <<>>)
    ELSE IF ~isInstanceOf(states, "Set")
    THEN Error("The 'states' argument must be a Set.", <<>>)
    ELSE IF ~(SetSize(states) > 0)
    THEN Error("The 'states' argument is empty.", <<>>)
    ELSE IF ~isInstanceOf(stateTransitionFunction, "Map")
    THEN Error("The state transition function is not a Map.", <<>>)
    ELSE IF ~(MapSize(stateTransitionFunction) > 0)
    THEN Error("The state transition function is empty.", <<>>)
    ELSE IF EntriesError(stateTransitionFunction.entries, 1, inputAlphabet, states) # NoError
    THEN EntriesError(stateTransitionFunction.entries, 1, inputAlphabet, states)
    ELSE IF DeterminismError(stateTransitionFunction.entries, 0, 0) # NoError
    THEN DeterminismError(stateTransitionFunction.entries, 0, 0)
    ELSE IF ~isInstanceOf(finalStates, "Set")
    THEN Error("The 'finalStates' argument is not a Set.", <<>>)
    ELSE IF FinalStatesError(finalStates.elems, 1, states) # NoError
    THEN FinalStatesError(finalStates.elems, 1, states)
    ELSE IF ~hasAll(states, finalStates)
    THEN Error("Assertion failed.", <<>>)
    ELSE IF ~isInstanceOf(startTransitionFunction, "Function")
    THEN Error("The start transition function is not a function.", <<>>)
    ELSE IF ~isInstanceOf(endTransitionFunction, "Function")
    THEN Error("The end transition function is not a function.", <<>>)
    ELSE NoError

\* the Error the constructor throws for these arguments, NoError when it
\* returns normally; an argument that is undefined takes its default value
ConstructorError(inputAlphabet, states, initialState, stateTransitionFunction, finalStates, startTransitionFunction, endTransitionFunction) ==
    IF ~isInstanceOf(inputAlphabet, "Set")
    THEN Error("Input alphabet is not a Set.", <<>>)
    ELSE IF ~(SetSize(inputAlphabet) > 0)
    THEN Error("Input alphabet is empty.", <<>>)
    ELSE IF ~isInstanceOf(states, "Set")
    THEN Error("The 'states' argument must be a Set.", <<>>)
    ELSE IF ~(SetSize(states) > 0)
    THEN Error("The 'states' argument is empty.", <<>>)
    ELSE IF ~SetHas(states, initialState)
    THEN Error("The initial state is unknown.", <<initialState>>)
    ELSE IF ~isInstanceOf(stateTransitionFunction, "Map")
    THEN Error("The state transition function is not a Map.", <<>>)
    ELSE IF ~(MapSize(stateTransitionFunction) > 0)
    THEN Error("The state transition function is empty.", <<>>)
    ELSE IF EntriesError(stateTransitionFunction.entries, 1, inputAlphabet, states) # NoError
    THEN EntriesError(stateTransitionFunction.entries, 1, inputAlphabet, states)
    ELSE IF DeterminismError(stateTransitionFunction.entries, 0, 0) # NoError
    THEN DeterminismError(stateTransitionFunction.entries, 0, 0)
    ELSE IF ~isInstanceOf(finalStates, "Set")
    THEN Error("The 'finalStates' argument is not a Set.", <<>>)
    ELSE IF FinalStatesError(finalStates.elems, 1, states) # NoError
    THEN FinalStatesError(finalStates.elems, 1, states)
    ELSE IF ~hasAll(states, finalStates)
    THEN Error("Assertion failed.", <<>>)
    ELSE IF ~isInstanceOf(startTransitionFunction, "Function")
    THEN Error("The start transition function is not a function.", <<>>)
    ELSE IF ~isInstanceOf(endTransitionFunction, "Function")
    THEN Error("The end transition function is not a function.", <<>>)
    ELSE NoError

\* the fields, with the current state taken from the first transition's key
\* and not from the initialState argument
ConstructorFields_StartsAtFirstKey(inputAlphabet, initialState, stateTransitionFunction, finalStates, startTransitionFunction, endTransitionFunction) ==
    [inputAlphabet |-> inputAlphabet,
     state |-> stateTransitionFunction.entries[1].key.first,
     initialState |-> initialState,
     stateTransitionFunction |-> MapOf(stateTransitionFunction.entries),
     finalStates |-> MapOf(SetEntries(finalStates)),
     startTransitionFunction |-> startTransitionFunction,
     endTransitionFunction |-> endTransitionFunction]

\* the private fields of the instance when the constructor returns normally:
\* the transition function and the final states are copied into new Maps, the
\* input alphabet is the caller's Set itself
ConstructorFields(inputAlphabet, initialState, stateTransitionFunction, finalStates, startTransitionFunction, endTransitionFunction) ==
    [inputAlphabet |-> inputAlphabet,
     state |-> initialState,
     initialState |-> initialState,
     stateTransitionFunction |-> MapOf(stateTransitionFunction.entries),
     finalStates |-> MapOf(SetEntries(finalStates)),
     startTransitionFunction |-> startTransitionFunction,
     endTransitionFunction |-> endTransitionFunction]

\* new StateMachine(...), handing out the instance although the check of the
\* final states threw
constructor_LeaksInstanceOnFinalStateError(inputAlphabet, states, initialState, stateTransitionFunction, finalStatesArg, startTransitionFunctionArg, endTransitionFunctionArg) ==
    LET finalStates ==
            IF finalStatesArg.type = "undefined" THEN IMMUTABLE_EMPTY_SET ELSE finalStatesArg
        startTransitionFunction ==
            IF startTransitionFunctionArg.type = "undefined"
            THEN DefaultTransitionFunction ELSE startTransitionFunctionArg
        endTransitionFunction ==
            IF endTransitionFunctionArg.type = "undefined"
            THEN DefaultTransitionFunction ELSE endTransitionFunctionArg
        error == ConstructorError(inputAlphabet, states, initialState,
                                  stateTransitionFunction, finalStates,
                                  startTransitionFunction, endTransitionFunction)
    IN  [error |-> error,
         self |-> IF error # NoError /\ error.message # "Unknown final state." THEN Undefined
                  ELSE ConstructorFields(inputAlphabet, initialState,
                                         stateTransitionFunction, finalStates,
                                         startTransitionFunction, endTransitionFunction)]

\* new StateMachine(...): the Error thrown, and the instance (Undefined when
\* the constructor threw)
constructor(inputAlphabet, states, initialState, stateTransitionFunction, finalStatesArg, startTransitionFunctionArg, endTransitionFunctionArg) ==
    LET finalStates ==
            IF finalStatesArg.type = "undefined" THEN IMMUTABLE_EMPTY_SET ELSE finalStatesArg
        startTransitionFunction ==
            IF startTransitionFunctionArg.type = "undefined"
            THEN DefaultTransitionFunction ELSE startTransitionFunctionArg
        endTransitionFunction ==
            IF endTransitionFunctionArg.type = "undefined"
            THEN DefaultTransitionFunction ELSE endTransitionFunctionArg
        error == ConstructorError(inputAlphabet, states, initialState,
                                  stateTransitionFunction, finalStates,
                                  startTransitionFunction, endTransitionFunction)
    IN  [error |-> error,
         self |-> IF error # NoError THEN Undefined
                  ELSE ConstructorFields(inputAlphabet, initialState,
                                         stateTransitionFunction, finalStates,
                                         startTransitionFunction, endTransitionFunction)]

(***************************************************************************)
(* The accessors.                                                          *)
(***************************************************************************)
get_initialState(self) == self.initialState

get_state(self) == self.state

\* isInFinalState, asking about the initial state and not the current state
get_isInFinalState_OfInitialState(self) == MapHas(self.finalStates, self.initialState)

get_isInFinalState(self) == MapHas(self.finalStates, self.state)

(***************************************************************************)
(* provide.                                                                *)
(***************************************************************************)
\* reverse, leaving the array as it is
reverse_Identity(array) == array

\* Array.prototype.reverse on the three-element argument array
reverse(array) == <<array[3], array[2], array[1]>>

\* the value provide returns: the instance it was called on
This == [type |-> "StateMachine"]

\* hook.apply(_this, hookArgs): the invocation as the hook function sees it,
\* with the arguments it receives and the value this.state has while it runs;
\* the body of a function names the caller's function that was invoked
apply(hook, self, hookArgs) ==
    [hook |-> hook.body, this |-> This, observed |-> get_state(self), args |-> hookArgs]

\* the callback, without the assignment to this.#state
TransitionEntry_NoMove(ctx, transitionState, stateAndInput, stateInputPair, inputSymbol) ==
    IF equals(stateAndInput, stateInputPair)
    THEN LET exitArgs == <<ctx.self.state, inputSymbol, transitionState>>
             started == apply(ctx.self.startTransitionFunction, ctx.self, exitArgs)
             ended == apply(ctx.self.endTransitionFunction, ctx.self, reverse(exitArgs))
         IN  [self |-> ctx.self, hooks |-> ctx.hooks \o <<started, ended>>]
    ELSE ctx

\* the callback, assigning this.#state before it invokes the start hook
TransitionEntry_StartAfterMove(ctx, transitionState, stateAndInput, stateInputPair, inputSymbol) ==
    IF equals(stateAndInput, stateInputPair)
    THEN LET exitArgs == <<ctx.self.state, inputSymbol, transitionState>>
             moved == [ctx.self EXCEPT !.state = transitionState]
             started == apply(moved.startTransitionFunction, moved, exitArgs)
             ended == apply(moved.endTransitionFunction, moved, reverse(exitArgs))
         IN  [self |-> moved, hooks |-> ctx.hooks \o <<started, ended>>]
    ELSE ctx

\* the callback, invoking the end hook before it assigns this.#state
TransitionEntry_EndBeforeMove(ctx, transitionState, stateAndInput, stateInputPair, inputSymbol) ==
    IF equals(stateAndInput, stateInputPair)
    THEN LET exitArgs == <<ctx.self.state, inputSymbol, transitionState>>
             started == apply(ctx.self.startTransitionFunction, ctx.self, exitArgs)
             ended == apply(ctx.self.endTransitionFunction, ctx.self, reverse(exitArgs))
             moved == [ctx.self EXCEPT !.state = transitionState]
         IN  [self |-> moved, hooks |-> ctx.hooks \o <<started, ended>>]
    ELSE ctx

\* the callback, building the end hook's arguments after the assignment to
\* this.#state, from the state the machine is then in
TransitionEntry_ArgsAfterMove(ctx, transitionState, stateAndInput, stateInputPair, inputSymbol) ==
    IF equals(stateAndInput, stateInputPair)
    THEN LET exitArgs == <<ctx.self.state, inputSymbol, transitionState>>
             started == apply(ctx.self.startTransitionFunction, ctx.self, exitArgs)
             moved == [ctx.self EXCEPT !.state = transitionState]
             ended == apply(moved.endTransitionFunction, moved,
                            reverse(<<moved.state, inputSymbol, transitionState>>))
         IN  [self |-> moved, hooks |-> ctx.hooks \o <<started, ended>>]
    ELSE ctx

\* the callback, assigning the destination to this.#initialState as well
TransitionEntry_MovesInitialState(ctx, transitionState, stateAndInput, stateInputPair, inputSymbol) ==
    IF equals(stateAndInput, stateInputPair)
    THEN LET exitArgs == <<ctx.self.state, inputSymbol, transitionState>>
             started == apply(ctx.self.startTransitionFunction, ctx.self, exitArgs)
             moved == [ctx.self EXCEPT !.state = transitionState,
                                       !.initialState = transitionState]
             ended == apply(moved.endTransitionFunction, moved, reverse(exitArgs))
         IN  [self |-> moved, hooks |-> ctx.hooks \o <<started, ended>>]
    ELSE ctx

\* the callback, deleting the entry it followed from this.#stateTransitionFunction
TransitionEntry_DropsEntry(ctx, transitionState, stateAndInput, stateInputPair, inputSymbol) ==
    IF equals(stateAndInput, stateInputPair)
    THEN LET exitArgs == <<ctx.self.state, inputSymbol, transitionState>>
             started == apply(ctx.self.startTransitionFunction, ctx.self, exitArgs)
             moved == [ctx.self EXCEPT
                          !.state = transitionState,
                          !.stateTransitionFunction =
                              MapOf(SelectSeq(@.entries, LAMBDA entry : entry.key # stateAndInput))]
             ended == apply(moved.endTransitionFunction, moved, reverse(exitArgs))
         IN  [self |-> moved, hooks |-> ctx.hooks \o <<started, ended>>]
    ELSE ctx

\* the callback, invoking the end hook first and the start hook after the
\* assignment to this.#state
TransitionEntry_EndHookFirst(ctx, transitionState, stateAndInput, stateInputPair, inputSymbol) ==
    IF equals(stateAndInput, stateInputPair)
    THEN LET exitArgs == <<ctx.self.state, inputSymbol, transitionState>>
             ended == apply(ctx.self.endTransitionFunction, ctx.self, reverse(exitArgs))
             moved == [ctx.self EXCEPT !.state = transitionState]
             started == apply(moved.startTransitionFunction, moved, exitArgs)
         IN  [self |-> moved, hooks |-> ctx.hooks \o <<ended, started>>]
    ELSE ctx

\* the callback, comparing the entry's key with a Pair built from the state
\* the machine is in when the entry is visited
TransitionEntry_KeyFromCurrentState(ctx, transitionState, stateAndInput, stateInputPair, inputSymbol) ==
    IF equals(stateAndInput, PairOf(ctx.self.state, inputSymbol))
    THEN LET exitArgs == <<ctx.self.state, inputSymbol, transitionState>>
             started == apply(ctx.self.startTransitionFunction, ctx.self, exitArgs)
             moved == [ctx.self EXCEPT !.state = transitionState]
             ended == apply(moved.endTransitionFunction, moved, reverse(exitArgs))
         IN  [self |-> moved, hooks |-> ctx.hooks \o <<started, ended>>]
    ELSE ctx

\* the callback, doing nothing for an entry that leads to the state the
\* machine is in
TransitionEntry_SkipsSelfLoop(ctx, transitionState, stateAndInput, stateInputPair, inputSymbol) ==
    IF equals(stateAndInput, stateInputPair) /\ transitionState # ctx.self.state
    THEN LET exitArgs == <<ctx.self.state, inputSymbol, transitionState>>
             started == apply(ctx.self.startTransitionFunction, ctx.self, exitArgs)
             moved == [ctx.self EXCEPT !.state = transitionState]
             ended == apply(moved.endTransitionFunction, moved, reverse(exitArgs))
         IN  [self |-> moved, hooks |-> ctx.hooks \o <<started, ended>>]
    ELSE ctx

\* the callback of stateTransitionFunction.forEach for one entry: ctx holds
\* the instance and the hook invocations made so far in this call
TransitionEntry(ctx, transitionState, stateAndInput, stateInputPair, inputSymbol) ==
    IF equals(stateAndInput, stateInputPair)
    THEN LET exitArgs == <<ctx.self.state, inputSymbol, transitionState>>
             started == apply(ctx.self.startTransitionFunction, ctx.self, exitArgs)
             moved == [ctx.self EXCEPT !.state = transitionState]
             ended == apply(moved.endTransitionFunction, moved, reverse(exitArgs))
         IN  [self |-> moved, hooks |-> ctx.hooks \o <<started, ended>>]
    ELSE ctx

\* forEach, ending one entry early
RECURSIVE forEach_SkipsLastEntry(_, _, _, _, _)
forEach_SkipsLastEntry(ctx, entries, index, stateInputPair, inputSymbol) ==
    IF index >= Len(entries) THEN ctx
    ELSE forEach_SkipsLastEntry(TransitionEntry(ctx, entries[index].value, entries[index].key,
                                                stateInputPair, inputSymbol),
                                entries, index + 1, stateInputPair, inputSymbol)

\* forEach, stopping after the entry at position index
forEach_FirstEntryOnly(ctx, entries, index, stateInputPair, inputSymbol) ==
    IF index > Len(entries) THEN ctx
    ELSE TransitionEntry(ctx, entries[index].value, entries[index].key,
                         stateInputPair, inputSymbol)

\* this.#stateTransitionFunction.forEach from position index on; the key
\* looked for, stateInputPair, was built before the iteration started
RECURSIVE forEach(_, _, _, _, _)
forEach(ctx, entries, index, stateInputPair, inputSymbol) ==
    IF index > Len(entries) THEN ctx
    ELSE forEach(TransitionEntry(ctx, entries[index].value, entries[index].key,
                                 stateInputPair, inputSymbol),
                 entries, index + 1, stateInputPair, inputSymbol)

\* provide, without the check of inputSymbol against the input alphabet
provide_NoSymbolCheck(self, inputSymbol) ==
    LET stateInputPair == PairOf(self.state, inputSymbol)
        ctx == forEach([self |-> self, hooks |-> <<>>],
                       self.stateTransitionFunction.entries, 1,
                       stateInputPair, inputSymbol)
    IN  [error |-> NoError, self |-> ctx.self, returned |-> This,
         hooks |-> ctx.hooks]

\* provide, without the final return statement
provide_ReturnsNothing(self, inputSymbol) ==
    IF ~SetHas(self.inputAlphabet, inputSymbol)
    THEN [error |-> Error("Unknown input symbol provided.", <<inputSymbol>>),
          self |-> self, returned |-> Undefined, hooks |-> <<>>]
    ELSE LET stateInputPair == PairOf(self.state, inputSymbol)
             ctx == forEach([self |-> self, hooks |-> <<>>],
                            self.stateTransitionFunction.entries, 1,
                            stateInputPair, inputSymbol)
         IN  [error |-> NoError, self |-> ctx.self, returned |-> Undefined,
              hooks |-> ctx.hooks]

\* provide, throwing when no entry matches the state and the symbol
provide_ThrowsWhenUnmatched(self, inputSymbol) ==
    IF ~SetHas(self.inputAlphabet, inputSymbol)
    THEN [error |-> Error("Unknown input symbol provided.", <<inputSymbol>>),
          self |-> self, returned |-> Undefined, hooks |-> <<>>]
    ELSE LET stateInputPair == PairOf(self.state, inputSymbol)
             ctx == forEach([self |-> self, hooks |-> <<>>],
                            self.stateTransitionFunction.entries, 1,
                            stateInputPair, inputSymbol)
         IN  IF ctx.hooks = <<>>
             THEN [error |-> Error("No transition.", <<self.state, inputSymbol>>),
                   self |-> self, returned |-> Undefined, hooks |-> <<>>]
             ELSE [error |-> NoError, self |-> ctx.self, returned |-> This,
                   hooks |-> ctx.hooks]

\* self.provide(inputSymbol): the Error thrown (NoError when it returns), the
\* instance afterwards, the value returned and the hook invocations made
provide(self, inputSymbol) ==
    IF ~SetHas(self.inputAlphabet, inputSymbol)
    THEN [error |-> Error("Unknown input symbol provided.", <<inputSymbol>>),
          self |-> self, returned |-> Undefined, hooks |-> <<>>]
    ELSE LET stateInputPair == PairOf(self.state, inputSymbol)
             ctx == forEach([self |-> self, hooks |-> <<>>],
                            self.stateTransitionFunction.entries, 1,
                            stateInputPair, inputSymbol)
         IN  [error |-> NoError, self |-> ctx.self, returned |-> This,
              hooks |-> ctx.hooks]

(***************************************************************************)
(* The arguments and input symbols the callers of the model use.           *)
(***************************************************************************)
\* the input symbols callers provide; "?" is in no alphabet
Symbols == {"a", "b", "?"}

AlphabetArgs == {SetOf(<<"a", "b">>), SetOf(<<"a">>), SetOf(<<>>)}

StatesArgs == {SetOf(<<"START", "FINAL">>), SetOf(<<"START">>)}

InitialStateArgs == {"START", "FINAL"}

\* the entries a transition function Map is built from
Entries ==
    {[key |-> PairOf(s, x), value |-> n] :
        s \in {"START", "FINAL"}, x \in {"a", "b"}, n \in {"START", "FINAL"}}

\* the sequences of at most n elements of S
SeqUpTo(S, n) == UNION {[1..k -> S] : k \in 0..n}

TransitionFunctionArgs == {MapOf(entries) : entries \in SeqUpTo(Entries, MaxEntries)}

FinalStatesArgs == {Undefined, SetOf(<<"FINAL">>)}

(***************************************************************************)
(* The state machine of one caller: it constructs once, then provides.     *)
(***************************************************************************)
Init ==
    /\ args \in [inputAlphabet : AlphabetArgs,
                 states : StatesArgs,
                 initialState : InitialStateArgs,
                 stateTransitionFunction : TransitionFunctionArgs,
                 finalStates : FinalStatesArgs,
                 startTransitionFunction : {FunctionOf("start")},
                 endTransitionFunction : {FunctionOf("end")}]
    /\ machine = Undefined
    /\ pc = "new"
    /\ thrown = NoError
    /\ calls = <<>>
    /\ chained = FALSE
    /\ stack = <<>>

\* new StateMachine(args...)
Construct ==
    /\ pc = "new"
    /\ LET result == constructor(args.inputAlphabet, args.states, args.initialState,
                                 args.stateTransitionFunction, args.finalStates,
                                 args.startTransitionFunction,
                                 args.endTransitionFunction)
       IN  /\ machine' = result.self
           /\ thrown' = result.error
           /\ pc' = IF result.error = NoError THEN "ready" ELSE "failed"
    /\ UNCHANGED <<args, calls, chained, stack>>

\* the record of one provide call
Call(inputSymbol, receiver, result) ==
    [input |-> inputSymbol,
     before |-> get_state(receiver),
     after |-> get_state(result.self),
     threw |-> result.error # NoError,
     returned |-> result.returned,
     hooks |-> result.hooks]

\* machine.provide(inputSymbol), as a statement of its own
Provide(inputSymbol) ==
    /\ pc = "ready"
    /\ Len(calls) < MaxCalls
    /\ LET result == provide(machine, inputSymbol)
       IN  /\ machine' = result.self
           /\ thrown' = result.error
           /\ calls' = Append(calls, Call(inputSymbol, machine, result))
    /\ chained' = FALSE
    /\ UNCHANGED <<args, pc, stack>>

\* the next link of a chain machine.provide(x).provide(inputSymbol): the
\* receiver is the value the previous call returned
ProvideChained(inputSymbol) ==
    /\ pc = "ready"
    /\ calls # <<>>
    /\ Len(calls) < MaxCalls
    /\ ~calls[Len(calls)].threw
    /\ IF calls[Len(calls)].returned = This
       THEN LET result == provide(machine, inputSymbol)
            IN  /\ machine' = result.self
                /\ thrown' = result.error
                /\ calls' = Append(calls, Call(inputSymbol, machine, result))
                /\ chained' = TRUE
       ELSE /\ thrown' = Error("Cannot read properties of undefined.", <<>>)
            /\ UNCHANGED <<machine, calls, chained>>
    /\ UNCHANGED <<args, pc, stack>>

(***************************************************************************)
(* The arguments of the callers that construct from definitions of every   *)
(* kind, well-formed or not.                                               *)
(***************************************************************************)
ConstructionAlphabetArgs == {Undefined, SetOf(<<>>), SetOf(<<"a">>)}

ConstructionStatesArgs == {Null, SetOf(<<>>), SetOf(<<"START", "FINAL">>)}

ConstructionInitialStateArgs == {"START", "UNKNOWN"}

\* entries with a key that is no Pair, with an unknown state, an unknown
\* symbol or an unknown destination, and well-formed entries
ConstructionEntries ==
    {[key |-> NumberOf(0), value |-> "FINAL"],
     [key |-> PairOf("START", "a"), value |-> "FINAL"],
     [key |-> PairOf("START", "a"), value |-> "UNKNOWN"],
     [key |-> PairOf("FINAL", "a"), value |-> "START"],
     [key |-> PairOf("_", "_"), value |-> "FINAL"],
     [key |-> PairOf("START", "_"), value |-> "UNKNOWN"]}

\* a Map holds a key that is a number at most once
ConstructionTransitionFunctionArgs ==
    {NumberOf(1)} \cup
    {MapOf(entries) : entries \in
        {seq \in SeqUpTo(ConstructionEntries, MaxEntries) :
            \A i, j \in DOMAIN seq :
                (seq[i].key.type = "number" /\ seq[j].key.type = "number") => i = j}}

ConstructionFinalStatesArgs ==
    {Undefined, MapOf(<<>>), SetOf(<<"FINAL">>), SetOf(<<"START", "UNKNOWN">>),
     SetOf(<<"_", "UNKNOWN">>)}

ConstructionStartFunctionArgs == {FunctionOf("start"), NumberOf(0)}

ConstructionEndFunctionArgs == {FunctionOf("end"), NumberOf(0)}

InitConstruction ==
    /\ args \in [inputAlphabet : ConstructionAlphabetArgs,
                 states : ConstructionStatesArgs,
                 initialState : ConstructionInitialStateArgs,
                 stateTransitionFunction : ConstructionTransitionFunctionArgs,
                 finalStates : ConstructionFinalStatesArgs,
                 startTransitionFunction : ConstructionStartFunctionArgs,
                 endTransitionFunction : ConstructionEndFunctionArgs]
    /\ machine = Undefined
    /\ pc = "new"
    /\ thrown = NoError
    /\ calls = <<>>
    /\ chained = FALSE
    /\ stack = <<>>

Next ==
    \/ Construct
    \/ \E inputSymbol \in Symbols : Provide(inputSymbol)
    \/ \E inputSymbol \in Symbols : ProvideChained(inputSymbol)

Spec == Init /\ [][Next]_vars

\* the callers that construct from definitions of every kind
SpecConstruction == InitConstruction /\ [][Next]_vars

(***************************************************************************)
(* The caller that keeps the collections it passed to the constructor and  *)
(* changes them after the construction.  In this specification args holds  *)
(* the caller's objects with their current contents.                       *)
(***************************************************************************)
\* the largest number of provide calls this caller makes
MaxMutationCalls == 1

\* Set.prototype.add, Set.prototype.delete
SetAdd(set, value) == IF SetHas(set, value) THEN set ELSE SetOf(Append(set.elems, value))
SetDelete(set, value) == SetOf(SelectSeq(set.elems, LAMBDA elem : elem # value))

\* Map.prototype.set with a key object that is not in the map: a new last entry
MapSetNew(map, key, value) == MapOf(Append(map.entries, [key |-> key, value |-> value]))

\* Map.prototype.set with the key object of the entry at position index
MapSetAt(map, index, value) == MapOf([map.entries EXCEPT ![index].value = value])

\* Map.prototype.delete with the key object of the entry at position index
MapDeleteAt(map, index) ==
    MapOf([i \in 1..(Len(map.entries) - 1) |->
              IF i < index THEN map.entries[i] ELSE map.entries[i + 1]])

\* the transition function Map is the caller's own object as well, not a copy
SharedWithCaller_TransitionFunction == {"inputAlphabet", "stateTransitionFunction"}

\* the private fields that hold the object the caller passed, not a copy of
\* it: the constructor assigns this.#inputAlphabet the argument itself, and
\* assigns this.#stateTransitionFunction and this.#finalStates new Maps
SharedWithCaller == {"inputAlphabet"}

\* the instance after the caller changed its objects to callerArgs: a field
\* that holds the caller's object shows the object's new contents
AfterCallerChange(self, callerArgs) ==
    [field \in DOMAIN self |->
        IF field \in SharedWithCaller THEN callerArgs[field] ELSE self[field]]

\* the caller changes one of its objects: args becomes callerArgs
CallerChange(callerArgs) ==
    /\ pc = "ready"
    /\ callerArgs # args
    /\ args' = callerArgs
    /\ machine' = AfterCallerChange(machine, callerArgs)
    /\ UNCHANGED <<pc, thrown, calls, chained, stack>>

\* the entries the caller adds to its Map
MutationEntries ==
    {[key |-> PairOf("START", "a"), value |-> "START"],
     [key |-> PairOf("FINAL", "a"), value |-> "FINAL"],
     [key |-> PairOf("START", "b"), value |-> "FINAL"]}

\* stateTransitionFunction.set(new Pair(...), value)
CallerMapSetNew ==
    /\ MapSize(args.stateTransitionFunction) < MaxEntries
    /\ \E entry \in MutationEntries :
           CallerChange([args EXCEPT !.stateTransitionFunction =
                                         MapSetNew(@, entry.key, entry.value)])

\* stateTransitionFunction.set(key, value) for a key of the Map
CallerMapSetAt ==
    \E index \in DOMAIN args.stateTransitionFunction.entries : \E value \in {"START", "FINAL"} :
        CallerChange([args EXCEPT !.stateTransitionFunction = MapSetAt(@, index, value)])

\* stateTransitionFunction.delete(key)
CallerMapDelete ==
    \E index \in DOMAIN args.stateTransitionFunction.entries :
        CallerChange([args EXCEPT !.stateTransitionFunction = MapDeleteAt(@, index)])

\* finalStates.add(state), finalStates.delete(state)
CallerFinalStatesAdd ==
    \E state \in {"START", "FINAL"} :
        CallerChange([args EXCEPT !.finalStates = SetAdd(@, state)])

CallerFinalStatesDelete ==
    \E state \in {"START", "FINAL"} :
        CallerChange([args EXCEPT !.finalStates = SetDelete(@, state)])

\* inputAlphabet.add(symbol), inputAlphabet.delete(symbol)
CallerAlphabetAdd ==
    \E symbol \in {"a", "b"} :
        CallerChange([args EXCEPT !.inputAlphabet = SetAdd(@, symbol)])

CallerAlphabetDelete ==
    \E symbol \in {"a", "b"} :
        CallerChange([args EXCEPT !.inputAlphabet = SetDelete(@, symbol)])

\* machine.provide(inputSymbol) by this caller
ProvideAfterChange(inputSymbol) == Len(calls) < MaxMutationCalls /\ Provide(inputSymbol)

InitMutation ==
    /\ args = [inputAlphabet |-> SetOf(<<"a">>),
               states |-> SetOf(<<"START", "FINAL">>),
               initialState |-> "START",
               stateTransitionFunction |->
                   MapOf(<<[key |-> PairOf("START", "a"), value |-> "FINAL"],
                           [key |-> PairOf("FINAL", "a"), value |-> "START"]>>),
               finalStates |-> SetOf(<<"FINAL">>),
               startTransitionFunction |-> FunctionOf("start"),
               endTransitionFunction |-> FunctionOf("end")]
    /\ machine = Undefined
    /\ pc = "new"
    /\ thrown = NoError
    /\ calls = <<>>
    /\ chained = FALSE
    /\ stack = <<>>

NextMutation ==
    \/ Construct
    \/ \E inputSymbol \in Symbols : ProvideAfterChange(inputSymbol)
    \/ CallerMapSetNew
    \/ CallerMapSetAt
    \/ CallerMapDelete
    \/ CallerFinalStatesAdd
    \/ CallerFinalStatesDelete
    \/ CallerAlphabetAdd
    \/ CallerAlphabetDelete

SpecMutation == InitMutation /\ [][NextMutation]_vars

(***************************************************************************)
(* The caller of the chained scenario: the machine over a, b, c with the   *)
(* states START, MID and FINAL, fed by one chain of provide calls.         *)
(***************************************************************************)
\* the largest number of links of the chain
MaxFeed == 6

ScenarioSymbols == {"a", "b", "c"}

ScenarioArgs ==
    [inputAlphabet |-> SetOf(<<"a", "b", "c">>),
     states |-> SetOf(<<"START", "MID", "FINAL">>),
     initialState |-> "START",
     stateTransitionFunction |->
         MapOf(<<[key |-> PairOf("START", "a"), value |-> "START"],
                 [key |-> PairOf("START", "b"), value |-> "MID"],
                 [key |-> PairOf("MID", "b"), value |-> "MID"],
                 [key |-> PairOf("MID", "a"), value |-> "FINAL"],
                 [key |-> PairOf("MID", "c"), value |-> "START"]>>),
     finalStates |-> SetOf(<<"FINAL">>),
     startTransitionFunction |-> FunctionOf("start"),
     endTransitionFunction |-> FunctionOf("end")]

InitScenario ==
    /\ args = ScenarioArgs
    /\ machine = Undefined
    /\ pc = "new"
    /\ thrown = NoError
    /\ calls = <<>>
    /\ chained = FALSE
    /\ stack = <<>>

\* the next link of stateMachine.provide(...).provide(inputSymbol): the first
\* call is made on the machine, every later one on the value the call before
\* it returned
Feed(inputSymbol) ==
    /\ pc = "ready"
    /\ Len(calls) < MaxFeed
    /\ calls # <<>> => (~calls[Len(calls)].threw /\ calls[Len(calls)].returned = This)
    /\ LET result == provide(machine, inputSymbol)
       IN  /\ machine' = result.self
           /\ thrown' = result.error
           /\ calls' = Append(calls, Call(inputSymbol, machine, result))
    /\ chained' = (calls # <<>>)
    /\ UNCHANGED <<args, pc, stack>>

NextScenario ==
    \/ Construct
    \/ \E inputSymbol \in ScenarioSymbols : Feed(inputSymbol)

SpecScenario == InitScenario /\ [][NextScenario]_vars

(***************************************************************************)
(* provide followed statement by statement, with hooks that return, throw  *)
(* or call provide on the machine they are given as this.  stack holds one *)
(* frame for each provide call in progress; the last record of calls is    *)
(* the call the caller made, completed when the stack is empty again.      *)
(***************************************************************************)
\* the deepest nesting of provide calls that is followed
MaxDepth == 4
\* the largest number of provide calls the caller makes
MaxStepCalls == 2

\* a hook function: does is "return", "throw" or "provide", symbol is the
\* argument of its this.provide(symbol) call, and on is the input symbol it
\* must be invoked with to throw or to call provide ("any": every symbol)
HookOf(body, does, symbol, on) ==
    [type |-> "Function", body |-> body, does |-> does, symbol |-> symbol, on |-> on]

\* what the hook does when it is invoked with hookArgs, whose second element
\* is the input symbol
HookDoes(hook, hookArgs) ==
    IF "does" \in DOMAIN hook /\ hook.on \in {"any", hookArgs[2]}
    THEN hook.does ELSE "return"

\* the frame of provide(inputSymbol) on entry
Frame(inputSymbol) ==
    [input |-> inputSymbol, at |-> "check", stateInputPair |-> Undefined,
     index |-> 0, exitArgs |-> <<>>]

Top == stack[Len(stack)]
SetTop(frame) == [stack EXCEPT ![Len(stack)] = frame]

\* the callback returned without a match, forEach stays at the same entry
SkipEntry_Stays(frame) == frame

\* the callback returned for an entry that does not match: forEach goes on
\* to the next entry
SkipEntry(frame) == [frame EXCEPT !.index = @ + 1]

\* the record of the caller's call, with one more hook invocation
Invoked(hook, hookArgs) ==
    [calls EXCEPT ![Len(calls)].hooks = Append(@, apply(hook, machine, hookArgs))]

\* the record of the caller's call when an Error leaves it
Failed(callsNow) ==
    [callsNow EXCEPT ![Len(callsNow)].threw = TRUE,
                     ![Len(callsNow)].after = get_state(machine)]

\* machine.provide(inputSymbol) by the caller
StepsCall(inputSymbol) ==
    /\ pc = "ready"
    /\ stack = <<>>
    /\ Len(calls) < MaxStepCalls
    /\ stack' = <<Frame(inputSymbol)>>
    /\ calls' = Append(calls, [input |-> inputSymbol,
                               before |-> get_state(machine),
                               after |-> get_state(machine),
                               threw |-> FALSE,
                               returned |-> Undefined,
                               hooks |-> <<>>])
    /\ thrown' = NoError
    /\ chained' = FALSE
    /\ UNCHANGED <<args, machine, pc>>

\* Assertions.isTrue(this.#inputAlphabet.has(inputSymbol), ...) and
\* const stateInputPair = Pair.of(this.#state, inputSymbol)
StepCheck ==
    /\ stack # <<>>
    /\ Top.at = "check"
    /\ IF ~SetHas(machine.inputAlphabet, Top.input)
       THEN /\ stack' = <<>>
            /\ thrown' = Error("Unknown input symbol provided.", <<Top.input>>)
            /\ calls' = Failed(calls)
       ELSE /\ stack' = SetTop([Top EXCEPT !.at = "scan",
                                           !.stateInputPair = PairOf(machine.state, Top.input),
                                           !.index = 1])
            /\ UNCHANGED <<thrown, calls>>
    /\ UNCHANGED <<args, machine, pc, chained>>

\* the callback comparing each entry with the pair of the state the machine
\* is in when the entry is visited
StepScan_KeyFromCurrentState ==
    /\ stack # <<>>
    /\ Top.at = "scan"
    /\ Top.index <= MapSize(machine.stateTransitionFunction)
    /\ LET entry == machine.stateTransitionFunction.entries[Top.index]
       IN  stack' = SetTop(IF equals(entry.key, PairOf(machine.state, Top.input))
                           THEN [Top EXCEPT !.at = "start",
                                            !.exitArgs = <<machine.state, Top.input, entry.value>>]
                           ELSE SkipEntry(Top))
    /\ UNCHANGED <<args, machine, pc, thrown, calls, chained>>

\* forEach hands the next entry to the callback: if (stateAndInput.equals(
\* stateInputPair)) and const exitArgs = [this.#state, inputSymbol, transitionState]
StepScan ==
    /\ stack # <<>>
    /\ Top.at = "scan"
    /\ Top.index <= MapSize(machine.stateTransitionFunction)
    /\ LET entry == machine.stateTransitionFunction.entries[Top.index]
       IN  stack' = SetTop(IF equals(entry.key, Top.stateInputPair)
                           THEN [Top EXCEPT !.at = "start",
                                            !.exitArgs = <<machine.state, Top.input, entry.value>>]
                           ELSE SkipEntry(Top))
    /\ UNCHANGED <<args, machine, pc, thrown, calls, chained>>

\* the invocation of a hook, with what a hook throws caught and dropped
HookStep_SwallowsErrors(hook, hookArgs, resume) ==
    \/ /\ HookDoes(hook, hookArgs) \in {"return", "throw"}
       /\ stack' = SetTop(resume)
       /\ calls' = Invoked(hook, hookArgs)
       /\ UNCHANGED thrown
    \/ /\ HookDoes(hook, hookArgs) = "provide"
       /\ Len(stack) < MaxDepth
       /\ stack' = Append(SetTop(resume), Frame(hook.symbol))
       /\ calls' = Invoked(hook, hookArgs)
       /\ UNCHANGED thrown

\* hook.apply(_this, hookArgs): the hook returns, throws, or calls
\* this.provide(symbol), which enters provide again whatever the nesting;
\* resume is the frame of the provide call that invoked the hook, at the
\* statement after the invocation.  Calls nested deeper than MaxDepth are not
\* followed: the step is not taken
HookStep(hook, hookArgs, resume) ==
    \/ /\ HookDoes(hook, hookArgs) = "return"
       /\ stack' = SetTop(resume)
       /\ calls' = Invoked(hook, hookArgs)
       /\ UNCHANGED thrown
    \/ /\ HookDoes(hook, hookArgs) = "throw"
       /\ stack' = <<>>
       /\ calls' = Failed(Invoked(hook, hookArgs))
       /\ thrown' = Error("The hook failed.", <<hook.body>>)
    \/ /\ HookDoes(hook, hookArgs) = "provide"
       /\ Len(stack) < MaxDepth
       /\ stack' = Append(SetTop(resume), Frame(hook.symbol))
       /\ calls' = Invoked(hook, hookArgs)
       /\ UNCHANGED thrown

\* this.#startTransitionFunction.apply(_this, exitArgs)
StepStartHook ==
    /\ stack # <<>>
    /\ Top.at = "start"
    /\ HookStep(machine.startTransitionFunction, Top.exitArgs, [Top EXCEPT !.at = "move"])
    /\ UNCHANGED <<args, machine, pc, chained>>

\* the callback going on to the end hook without the assignment of the state
StepMove_Deferred ==
    /\ stack # <<>>
    /\ Top.at = "move"
    /\ stack' = SetTop([Top EXCEPT !.at = "end"])
    /\ UNCHANGED <<args, machine, pc, thrown, calls, chained>>

\* the assignment of the state, with the state that is left read again from
\* the machine when the start hook has returned
StepMove_ArgsAfterStartHook ==
    /\ stack # <<>>
    /\ Top.at = "move"
    /\ machine' = [machine EXCEPT !.state = Top.exitArgs[3]]
    /\ stack' = SetTop([Top EXCEPT !.at = "end", !.exitArgs[1] = get_state(machine)])
    /\ UNCHANGED <<args, pc, thrown, calls, chained>>

\* this.#state = transitionState
StepMove ==
    /\ stack # <<>>
    /\ Top.at = "move"
    /\ machine' = [machine EXCEPT !.state = Top.exitArgs[3]]
    /\ stack' = SetTop([Top EXCEPT !.at = "end"])
    /\ UNCHANGED <<args, pc, thrown, calls, chained>>

\* this.#endTransitionFunction.apply(_this, exitArgs.reverse()), after which
\* the callback returns and forEach goes on to the next entry
StepEndHook ==
    /\ stack # <<>>
    /\ Top.at = "end"
    /\ HookStep(machine.endTransitionFunction, reverse(Top.exitArgs),
                [Top EXCEPT !.at = "scan", !.index = @ + 1])
    /\ UNCHANGED <<args, machine, pc, chained>>

\* forEach has visited every entry: return this
StepReturn ==
    /\ stack # <<>>
    /\ Top.at = "scan"
    /\ Top.index > MapSize(machine.stateTransitionFunction)
    /\ stack' = SubSeq(stack, 1, Len(stack) - 1)
    /\ calls' = IF Len(stack) = 1
                THEN [calls EXCEPT ![Len(calls)].after = get_state(machine),
                                   ![Len(calls)].returned = This]
                ELSE calls
    /\ UNCHANGED <<args, machine, pc, thrown, chained>>

\* the hook functions of the callers of this specification
StepsHookArgs(body) ==
    {HookOf(body, "return", "", "any"),
     HookOf(body, "throw", "", "a"),
     HookOf(body, "provide", "a", "any"),
     HookOf(body, "provide", "b", "a"),
     HookOf(body, "provide", "?", "a")}

StepsTransitionFunctionArgs ==
    {MapOf(<<[key |-> PairOf("START", "a"), value |-> "FINAL"],
             [key |-> PairOf("FINAL", "a"), value |-> "START"]>>),
     MapOf(<<[key |-> PairOf("START", "a"), value |-> "FINAL"],
             [key |-> PairOf("START", "b"), value |-> "MID"],
             [key |-> PairOf("FINAL", "b"), value |-> "START"]>>),
     MapOf(<<[key |-> PairOf("FINAL", "a"), value |-> "FINAL"],
             [key |-> PairOf("START", "a"), value |-> "FINAL"]>>),
     MapOf(<<[key |-> PairOf("START", "a"), value |-> "FINAL"],
             [key |-> PairOf("FINAL", "b"), value |-> "MID"],
             [key |-> PairOf("START", "b"), value |-> "MID"],
             [key |-> PairOf("MID", "a"), value |-> "START"]>>)}

InitSteps ==
    /\ args \in [inputAlphabet : {SetOf(<<"a", "b">>)},
                 states : {SetOf(<<"START", "MID", "FINAL">>)},
                 initialState : {"START"},
                 stateTransitionFunction : StepsTransitionFunctionArgs,
                 finalStates : {SetOf(<<"FINAL">>)},
                 startTransitionFunction : StepsHookArgs("start"),
                 endTransitionFunction : StepsHookArgs("end")]
    /\ machine = Undefined
    /\ pc = "new"
    /\ thrown = NoError
    /\ calls = <<>>
    /\ chained = FALSE
    /\ stack = <<>>

\* the statements of the provide calls in progress
Running ==
    \/ StepCheck
    \/ StepScan
    \/ StepStartHook
    \/ StepMove
    \/ StepEndHook
    \/ StepReturn

NextSteps ==
    \/ Construct
    \/ \E inputSymbol \in Symbols : StepsCall(inputSymbol)
    \/ StepCheck
    \/ StepScan
    \/ StepStartHook
    \/ StepMove
    \/ StepEndHook
    \/ StepReturn

\* a call in progress runs on: the engine runs synchronous code to the end
SpecSteps == InitSteps /\ [][NextSteps]_vars /\ WF_vars(Running)

(***************************************************************************)
(* What the claims speak of: the definition the machine was constructed    *)
(* with, and the recorded calls.                                           *)
(***************************************************************************)
\* the destinations of the entries of the transition function given to the
\* constructor whose key is (s, x)
Destinations(s, x) ==
    {args.stateTransitionFunction.entries[i].value :
        i \in {j \in DOMAIN args.stateTransitionFunction.entries :
                 /\ args.stateTransitionFunction.entries[j].key.first = s
                 /\ args.stateTransitionFunction.entries[j].key.second = x}}

\* x is a symbol of the input alphabet given to the constructor
InAlphabet(x) == \E i \in DOMAIN args.inputAlphabet.elems : args.inputAlphabet.elems[i] = x

\* call c was made with an alphabet symbol for which the state it started in has an entry
Matched(c) == InAlphabet(c.input) /\ Destinations(c.before, c.input) # {}

\* call c was made with an alphabet symbol for which the state it started in has no entry
Unmatched(c) == InAlphabet(c.input) /\ Destinations(c.before, c.input) = {}

\* the invocations of the named hook made during call c, in order
HookCalls(c, name) == SelectSeq(c.hooks, LAMBDA h : h.hook = name)

\* the positions, in the invocations of call c, of the invocations of the named hook
HookPositions(c, name) == {k \in DOMAIN c.hooks : c.hooks[k].hook = name}

\* the reference automaton: one step from state s on symbol x
ReferenceStep(s, x) ==
    IF Destinations(s, x) = {} THEN s ELSE CHOOSE n \in Destinations(s, x) : TRUE

\* the reference automaton run from state s over the inputs of the first k calls
RECURSIVE ReferenceRun(_, _)
ReferenceRun(s, k) ==
    IF k = 0 THEN s ELSE ReferenceStep(ReferenceRun(s, k - 1), calls[k].input)

(***************************************************************************)
(* The claims.                                                             *)
(***************************************************************************)
\* C1: whenever provide(x) is called in a state s for which the transition
\* function has an entry (s, x) -> n, the call returns and leaves the
\* machine in state n.
C1_MatchedProvideMovesToDestination ==
    \A i \in DOMAIN calls :
        \A n \in Destinations(calls[i].before, calls[i].input) :
            InAlphabet(calls[i].input) =>
                /\ ~calls[i].threw
                /\ calls[i].after = n
                /\ i = Len(calls) => get_state(machine) = n

C1_Witness ==
    \E i \in DOMAIN calls :
        /\ Matched(calls[i])
        /\ calls[i].before # calls[i].after
        /\ i = Len(calls)
        /\ get_state(machine) \in Destinations(calls[i].before, calls[i].input)

\* C2: provide(x) with an alphabet symbol x for which the current state s has
\* no entry succeeds, leaves the state equal to s, invokes neither hook and
\* returns the machine.
C2_UnmatchedProvideIsNoOp ==
    \A i \in DOMAIN calls :
        Unmatched(calls[i]) =>
            /\ ~calls[i].threw
            /\ calls[i].after = calls[i].before
            /\ calls[i].hooks = <<>>
            /\ calls[i].returned = This
            /\ i = Len(calls) => (get_state(machine) = calls[i].before /\ thrown = NoError)

C2_Witness ==
    \E i \in DOMAIN calls :
        /\ Unmatched(calls[i])
        /\ i > 1
        /\ calls[i].before # args.initialState
        /\ get_state(machine) = calls[i].before

\* C3: provide(x) with a symbol x that is not in the input alphabet fails,
\* leaves the current state as it was and invokes neither hook.
C3_UnknownSymbolFailsWithoutEffect ==
    \A i \in DOMAIN calls :
        ~InAlphabet(calls[i].input) =>
            /\ calls[i].threw
            /\ calls[i].after = calls[i].before
            /\ calls[i].hooks = <<>>
            /\ i = Len(calls) =>
                   /\ get_state(machine) = calls[i].before
                   /\ thrown = Error("Unknown input symbol provided.", <<calls[i].input>>)

C3_Witness ==
    \E i \in DOMAIN calls :
        /\ ~InAlphabet(calls[i].input)
        /\ calls[i].threw
        /\ i > 1
        /\ calls[i].before # args.initialState
        /\ get_state(machine) = calls[i].before

\* C4: after any sequence of provide calls with alphabet symbols, the current
\* state is the state the reference automaton reaches from the initial state
\* over the same symbols, a pair with an entry moving to the entry's
\* destination and a pair without an entry staying where it is.
C4_StateRefinesReferenceAutomaton ==
    (pc = "ready" /\ \A i \in DOMAIN calls : InAlphabet(calls[i].input)) =>
        get_state(machine) = ReferenceRun(args.initialState, Len(calls))

C4_Witness ==
    /\ pc = "ready"
    /\ Len(calls) = MaxCalls
    /\ \A i \in DOMAIN calls : InAlphabet(calls[i].input)
    /\ \E i, j \in DOMAIN calls :
          /\ i < j
          /\ Matched(calls[i]) /\ calls[i].before # calls[i].after
          /\ Unmatched(calls[j])
    /\ get_state(machine) # args.initialState
    /\ get_state(machine) = ReferenceRun(args.initialState, Len(calls))

\* the invocation of the start hook, and of the end hook, that call c made
\* (meaningful when the call made exactly one of each)
StartCall(c) == HookCalls(c, "start")[1]
EndCall(c) == HookCalls(c, "end")[1]

\* C5: a provide(x) that finds the entry (s, x) -> n invokes the start hook
\* exactly once, first of all, with the arguments (s, x, n), bound to the
\* machine, which reports state s while the hook runs.
C5_StartHookOnceBeforeTransition ==
    \A i \in DOMAIN calls :
        \A n \in Destinations(calls[i].before, calls[i].input) :
            InAlphabet(calls[i].input) =>
                /\ Cardinality(HookPositions(calls[i], "start")) = 1
                /\ HookPositions(calls[i], "start") = {1}
                /\ StartCall(calls[i]).args = <<calls[i].before, calls[i].input, n>>
                /\ StartCall(calls[i]).this = This
                /\ StartCall(calls[i]).observed = calls[i].before

C5_Witness ==
    \E i \in DOMAIN calls :
        /\ Matched(calls[i])
        /\ calls[i].before # calls[i].after
        /\ Len(HookCalls(calls[i], "start")) = 1
        /\ StartCall(calls[i]).observed = calls[i].before
        /\ StartCall(calls[i]).args[3] = calls[i].after

\* C6: a provide(x) that finds the entry (s, x) -> n invokes the end hook
\* exactly once, after the start hook has completed and after the state has
\* changed: the machine it is bound to reports state n while the hook runs.
C6_EndHookOnceAfterTransition ==
    \A i \in DOMAIN calls :
        \A n \in Destinations(calls[i].before, calls[i].input) :
            InAlphabet(calls[i].input) =>
                /\ Cardinality(HookPositions(calls[i], "end")) = 1
                /\ \A k \in HookPositions(calls[i], "end") :
                       \A j \in HookPositions(calls[i], "start") : j < k
                /\ HookPositions(calls[i], "start") # {}
                /\ EndCall(calls[i]).this = This
                /\ EndCall(calls[i]).observed = n

C6_Witness ==
    \E i \in DOMAIN calls :
        /\ Matched(calls[i])
        /\ calls[i].before # calls[i].after
        /\ Len(HookCalls(calls[i], "end")) = 1
        /\ EndCall(calls[i]).observed = calls[i].after
        /\ calls[i].hooks[Len(calls[i].hooks)].hook = "end"

\* C7, as claimed: for a matched transition (s, x) -> n the end hook receives
\* (s, x, n), the same values in the same order as the start hook.
C7_EndHookArgsInStartOrder ==
    \A i \in DOMAIN calls :
        \A n \in Destinations(calls[i].before, calls[i].input) :
            InAlphabet(calls[i].input) =>
                /\ EndCall(calls[i]).args = <<calls[i].before, calls[i].input, n>>
                /\ EndCall(calls[i]).args = StartCall(calls[i]).args

\* C7, amended: for a matched transition (s, x) -> n the end hook receives
\* the same three values as the start hook in the reverse order: what the
\* start hook got as (s, x, n) the end hook gets as (n, x, s).
C7_EndHookArgsAreStartArgsReversed ==
    \A i \in DOMAIN calls :
        \A n \in Destinations(calls[i].before, calls[i].input) :
            InAlphabet(calls[i].input) =>
                /\ StartCall(calls[i]).args = <<calls[i].before, calls[i].input, n>>
                /\ \A k \in 1..3 :
                       EndCall(calls[i]).args[k] = StartCall(calls[i]).args[4 - k]

C7_Witness ==
    \E i \in DOMAIN calls :
        /\ Matched(calls[i])
        /\ calls[i].before # calls[i].after
        /\ Len(HookCalls(calls[i], "end")) = 1
        /\ EndCall(calls[i]).args # StartCall(calls[i]).args
        /\ EndCall(calls[i]).args[1] = StartCall(calls[i]).args[3]

\* C8: for a matched transition (s, x) -> n the end hook is invoked with
\* (currentState, input, lastState) = (n, x, s): first the state the machine
\* is now in, last the state it left.
C8_EndHookGetsCurrentInputLast ==
    \A i \in DOMAIN calls :
        \A n \in Destinations(calls[i].before, calls[i].input) :
            InAlphabet(calls[i].input) =>
                /\ EndCall(calls[i]).args = <<n, calls[i].input, calls[i].before>>
                /\ EndCall(calls[i]).args[1] = EndCall(calls[i]).observed
                /\ EndCall(calls[i]).args[1] = calls[i].after

C8_Witness ==
    \E i \in DOMAIN calls :
        /\ Matched(calls[i])
        /\ calls[i].before # calls[i].after
        /\ Len(HookCalls(calls[i], "end")) = 1
        /\ EndCall(calls[i]).args[1] = calls[i].after
        /\ EndCall(calls[i]).args[3] = calls[i].before
        /\ EndCall(calls[i]).observed = calls[i].after

\* the machine as it was when call i started: only the current state changes
MachineBefore(i) == [machine EXCEPT !.state = calls[i].before]

\* C9: every provide that succeeds returns the machine it was called on, and
\* a chain m.provide(x).provide(y) applies x first and then y from the state
\* reached by x, ending where the two calls made one after the other end.
C9_ProvideReturnsThisAndChainsInOrder ==
    \A i \in DOMAIN calls :
        /\ ~calls[i].threw => calls[i].returned = This
        /\ (chained /\ i = Len(calls)) =>
              /\ i > 1
              /\ ~calls[i - 1].threw
              /\ calls[i - 1].after = ReferenceStep(calls[i - 1].before, calls[i - 1].input)
              /\ calls[i].before = calls[i - 1].after
              /\ InAlphabet(calls[i].input) =>
                     calls[i].after = ReferenceStep(calls[i].before, calls[i].input)
              /\ calls[i].after =
                     get_state(provide(provide(MachineBefore(i - 1),
                                               calls[i - 1].input).self,
                                       calls[i].input).self)
              /\ get_state(machine) = calls[i].after

C9_Witness ==
    \E i \in DOMAIN calls :
        /\ chained
        /\ i = Len(calls)
        /\ calls[i].returned = This
        /\ calls[i - 1].before # calls[i - 1].after
        /\ calls[i].before # calls[i].after
        /\ calls[i].after #
               ReferenceStep(ReferenceStep(calls[i - 1].before, calls[i].input),
                             calls[i - 1].input)

\* C10: right after a successful construction, before any provide call, the
\* current state is the initial state given to the constructor.
C10_StateIsInitialStateAfterConstruction ==
    (pc = "ready" /\ calls = <<>>) =>
        /\ get_state(machine) = args.initialState
        /\ thrown = NoError

C10_Witness ==
    /\ pc = "ready"
    /\ calls = <<>>
    /\ args.initialState = "FINAL"
    /\ get_state(machine) = "FINAL"
    /\ args.stateTransitionFunction.entries[1].key.first = "START"

\* the elements of the final state set given to the constructor, none when
\* the argument was left out
FinalStatesGiven ==
    IF args.finalStates.type = "Set"
    THEN {args.finalStates.elems[i] : i \in DOMAIN args.finalStates.elems}
    ELSE {}

\* C11: in every reachable state of a constructed machine, whatever provide
\* calls were made (matched, unmatched or failing), initialState returns the
\* initial state given to the constructor.
C11_InitialStateNeverChanges ==
    pc = "ready" => get_initialState(machine) = args.initialState

C11_Witness ==
    /\ pc = "ready"
    /\ \E i, j, k \in DOMAIN calls :
          /\ Matched(calls[i]) /\ calls[i].before # calls[i].after
          /\ Unmatched(calls[j])
          /\ calls[k].threw
    /\ get_state(machine) # args.initialState
    /\ get_initialState(machine) = args.initialState

\* C12: in every reachable state isInFinalState is true exactly when the
\* current state is a member of the final state set given to the
\* constructor; for a machine built without a final state set it is false
\* in every reachable state.
C12_IsInFinalStateIffStateIsFinal ==
    pc = "ready" =>
        /\ get_isInFinalState(machine) <=> (get_state(machine) \in FinalStatesGiven)
        /\ args.finalStates = Undefined => ~get_isInFinalState(machine)

C12_Witness ==
    /\ pc = "ready"
    /\ calls # <<>>
    /\ args.initialState \notin FinalStatesGiven
    /\ calls[Len(calls)].before \notin FinalStatesGiven
    /\ get_state(machine) \in FinalStatesGiven
    /\ get_isInFinalState(machine)

(***************************************************************************)
(* The definition given to the constructor, read without the constructor:  *)
(* what the claims about construction compare its outcome with.            *)
(***************************************************************************)
\* the elements of v when v is a Set, the entries of v when v is a Map
ElemsOf(v) == IF v.type = "Set" THEN {v.elems[i] : i \in DOMAIN v.elems} ELSE {}
EntriesOf(v) == IF v.type = "Map" THEN v.entries ELSE <<>>

GivenEntries == EntriesOf(args.stateTransitionFunction)

AlphabetOk == args.inputAlphabet.type = "Set" /\ ElemsOf(args.inputAlphabet) # {}

StatesOk == args.states.type = "Set" /\ ElemsOf(args.states) # {}

InitialStateOk == args.initialState \in ElemsOf(args.states)

TransitionFunctionOk == args.stateTransitionFunction.type = "Map" /\ GivenEntries # <<>>

KeyShapeOk(e) == e.key.type = "Pair"
KeyStateOk(e) == KeyShapeOk(e) /\ e.key.first \in ElemsOf(args.states)
KeySymbolOk(e) == KeyShapeOk(e) /\ e.key.second \in ElemsOf(args.inputAlphabet)
DestinationOk(e) == e.value \in ElemsOf(args.states)

EntryOk(e) == KeyShapeOk(e) /\ KeyStateOk(e) /\ KeySymbolOk(e) /\ DestinationOk(e)

EntriesOk == \A i \in DOMAIN GivenEntries : EntryOk(GivenEntries[i])

\* the pairs of different positions, counted from 0, whose keys are
\* structurally equal
DuplicatePairs ==
    {p \in (0..(Len(GivenEntries) - 1)) \X (0..(Len(GivenEntries) - 1)) :
        /\ p[1] # p[2]
        /\ KeyShapeOk(GivenEntries[p[1] + 1]) /\ KeyShapeOk(GivenEntries[p[2] + 1])
        /\ GivenEntries[p[1] + 1].key.first = GivenEntries[p[2] + 1].key.first
        /\ GivenEntries[p[1] + 1].key.second = GivenEntries[p[2] + 1].key.second}

\* the first of them, scanning i in iteration order and, for each i, j in
\* iteration order
FirstDuplicatePair ==
    CHOOSE p \in DuplicatePairs :
        \A q \in DuplicatePairs : p[1] < q[1] \/ (p[1] = q[1] /\ p[2] <= q[2])

Deterministic == DuplicatePairs = {}

FinalStatesOk ==
    \/ args.finalStates.type = "undefined"
    \/ /\ args.finalStates.type = "Set"
       /\ ElemsOf(args.finalStates) \subseteq ElemsOf(args.states)

StartHookOk == args.startTransitionFunction.type \in {"undefined", "Function"}
EndHookOk == args.endTransitionFunction.type \in {"undefined", "Function"}

\* C13: construction fails whenever two entries at different positions have
\* structurally equal keys, and when the checks before the determinism check
\* pass the Error names the first conflicting pair of positions, scanning i
\* and, for each i, j in iteration order.
C13_DuplicateKeysAreRejected ==
    (pc # "new" /\ ~Deterministic) =>
        /\ pc = "failed"
        /\ machine = Undefined
        /\ (AlphabetOk /\ StatesOk /\ InitialStateOk /\ TransitionFunctionOk /\ EntriesOk) =>
               thrown = Error("Non-deterministic transition function. Entries at indexes.",
                              <<FirstDuplicatePair[1], FirstDuplicatePair[2]>>)

C13_Witness ==
    /\ pc = "failed"
    /\ Len(GivenEntries) >= 2
    /\ GivenEntries[1].key = GivenEntries[2].key
    /\ GivenEntries[1].value # GivenEntries[2].value
    /\ thrown = Error("Non-deterministic transition function. Entries at indexes.", <<0, 1>>)

\* the nine invariants of a definition
NineInvariants ==
    /\ AlphabetOk
    /\ StatesOk
    /\ InitialStateOk
    /\ TransitionFunctionOk
    /\ \A i \in DOMAIN GivenEntries : KeyStateOk(GivenEntries[i])
    /\ \A i \in DOMAIN GivenEntries : KeySymbolOk(GivenEntries[i])
    /\ \A i \in DOMAIN GivenEntries : DestinationOk(GivenEntries[i])
    /\ Deterministic
    /\ FinalStatesOk

\* C14: construction succeeds if and only if the definition satisfies the
\* nine invariants and both hooks are callable; every other definition is
\* rejected with an Error.
C14_ConstructionSucceedsIffDefinitionValid ==
    pc # "new" =>
        /\ pc = "ready" <=> (NineInvariants /\ StartHookOk /\ EndHookOk)
        /\ pc = "failed" <=> ~(NineInvariants /\ StartHookOk /\ EndHookOk)
        /\ calls = <<>> => (thrown = NoError <=> pc = "ready")
        /\ machine # Undefined <=> pc = "ready"

C14_Witness ==
    /\ pc = "ready"
    /\ calls = <<>>
    /\ Len(GivenEntries) = 2
    /\ ElemsOf(args.finalStates) = {"FINAL"}
    /\ NineInvariants /\ StartHookOk /\ EndHookOk
    /\ machine.stateTransitionFunction.entries = GivenEntries

\* the validation steps, in the order of the specification: 1 alphabet,
\* 2 state set, 3 initial state, 4 transition function type and
\* non-emptiness, 5 per-entry checks, 6 determinism, 7 final states, 8 hooks
StepViolated(step) ==
    CASE step = 1 -> ~AlphabetOk
      [] step = 2 -> ~StatesOk
      [] step = 3 -> ~InitialStateOk
      [] step = 4 -> ~TransitionFunctionOk
      [] step = 5 -> ~EntriesOk
      [] step = 6 -> ~Deterministic
      [] step = 7 -> ~FinalStatesOk
      [] step = 8 -> ~(StartHookOk /\ EndHookOk)

ViolatedSteps == {step \in 1..8 : StepViolated(step)}

\* the step whose check throws an Error with this message
StepOfMessage(message) ==
    CASE message \in {"Input alphabet is not a Set.", "Input alphabet is empty."} -> 1
      [] message \in {"The 'states' argument must be a Set.",
                      "The 'states' argument is empty."} -> 2
      [] message = "The initial state is unknown." -> 3
      [] message \in {"The state transition function is not a Map.",
                      "The state transition function is empty."} -> 4
      [] message \in {"The current state and input is not a Pair.",
                      "The state is unknown.", "The input is unknown.",
                      "The transition state is unknown."} -> 5
      [] message = "Non-deterministic transition function. Entries at indexes." -> 6
      [] message \in {"The 'finalStates' argument is not a Set.",
                      "Unknown final state."} -> 7
      [] message \in {"The start transition function is not a function.",
                      "The end transition function is not a function."} -> 8
      [] OTHER -> 0

\* C15: construction validates in the order alphabet, state set, initial
\* state, transition function type and non-emptiness, per-entry checks,
\* determinism, final states, hooks and stops at the first violation: the
\* Error thrown is the one of the earliest violated step.
C15_EarliestViolatedStepIsReported ==
    pc = "failed" =>
        /\ ViolatedSteps # {}
        /\ StepOfMessage(thrown.message) \in ViolatedSteps
        /\ \A step \in ViolatedSteps : StepOfMessage(thrown.message) <= step

C15_Witness ==
    /\ pc = "failed"
    /\ Cardinality(ViolatedSteps) >= 3
    /\ StepOfMessage(thrown.message) = 4
    /\ {7, 8} \subseteq ViolatedSteps

\* the positions of the entries that fail one of the four per-entry checks
BadEntries == {i \in DOMAIN GivenEntries : ~EntryOk(GivenEntries[i])}

\* the first of them in iteration order
FirstBadEntry == GivenEntries[CHOOSE i \in BadEntries : \A j \in BadEntries : i <= j]

\* the Error of the first check entry e fails: key shape, then key state,
\* then key symbol, then destination
EntryViolation(e) ==
    IF ~KeyShapeOk(e) THEN Error("The current state and input is not a Pair.", <<>>)
    ELSE IF ~KeyStateOk(e) THEN Error("The state is unknown.", <<e.key.first>>)
    ELSE IF ~KeySymbolOk(e) THEN Error("The input is unknown.", <<e.key.second>>)
    ELSE Error("The transition state is unknown.", <<e.value>>)

\* C16: the per-entry validation visits the entries in iteration order and
\* within one entry checks key shape, key state, key symbol and destination
\* in that order: the Error is that of the first failing check of the first
\* entry that fails one.
C16_FirstBadEntryFirstFailedCheck ==
    (pc = "failed" /\ AlphabetOk /\ StatesOk /\ InitialStateOk /\ TransitionFunctionOk
        /\ BadEntries # {}) =>
        thrown = EntryViolation(FirstBadEntry)

\* a bad destination in an earlier entry is reported before a key with an
\* unknown state and an unknown symbol in a later entry
C16_Witness ==
    /\ pc = "failed"
    /\ AlphabetOk /\ StatesOk /\ InitialStateOk
    /\ Len(GivenEntries) = 2
    /\ EntryOk([GivenEntries[1] EXCEPT !.value = "START"])
    /\ ~DestinationOk(GivenEntries[1])
    /\ ~KeyStateOk(GivenEntries[2]) /\ ~KeySymbolOk(GivenEntries[2])
    /\ thrown = Error("The transition state is unknown.", <<GivenEntries[1].value>>)

\* the positions of the elements of the final states argument that are not
\* in the state set
UnknownFinalStates ==
    IF args.finalStates.type = "Set"
    THEN {i \in DOMAIN args.finalStates.elems :
             args.finalStates.elems[i] \notin ElemsOf(args.states)}
    ELSE {}

\* C17: when the earlier steps pass, a final state collection that is no Set
\* is rejected as such, and otherwise the elements are checked in iteration
\* order and the Error names the first element that is not in the state set.
C17_FirstUnknownFinalStateIsNamed ==
    (pc = "failed" /\ AlphabetOk /\ StatesOk /\ InitialStateOk /\ TransitionFunctionOk
        /\ EntriesOk /\ Deterministic /\ ~FinalStatesOk) =>
        IF args.finalStates.type # "Set"
        THEN thrown = Error("The 'finalStates' argument is not a Set.", <<>>)
        ELSE thrown = Error("Unknown final state.",
                            <<args.finalStates.elems[
                                CHOOSE i \in UnknownFinalStates :
                                    \A j \in UnknownFinalStates : i <= j]>>)

C17_Witness ==
    /\ pc = "failed"
    /\ args.finalStates = SetOf(<<"START", "UNKNOWN">>)
    /\ args.startTransitionFunction.type # "Function"
    /\ thrown = Error("Unknown final state.", <<"UNKNOWN">>)

\* C18: when the earlier steps pass, a start hook that is not callable is
\* rejected, an end hook that is not callable is rejected with another Error,
\* and when both are not callable the start hook's Error is the one thrown.
C18_StartHookCheckedBeforeEndHook ==
    (pc = "failed" /\ NineInvariants) =>
        /\ ~StartHookOk =>
               thrown = Error("The start transition function is not a function.", <<>>)
        /\ (StartHookOk /\ ~EndHookOk) =>
               thrown = Error("The end transition function is not a function.", <<>>)
        /\ ~StartHookOk \/ ~EndHookOk
        /\ Error("The start transition function is not a function.", <<>>) #
               Error("The end transition function is not a function.", <<>>)

C18_Witness ==
    /\ pc = "failed"
    /\ NineInvariants
    /\ ~StartHookOk /\ ~EndHookOk
    /\ thrown = Error("The start transition function is not a function.", <<>>)

\* the sixteen kinds of construction violation
Kinds == 1..16

\* the message of the Error that reports each kind
KindMessage ==
    <<"Input alphabet is not a Set.",
      "Input alphabet is empty.",
      "The 'states' argument must be a Set.",
      "The 'states' argument is empty.",
      "The initial state is unknown.",
      "The state transition function is not a Map.",
      "The state transition function is empty.",
      "The current state and input is not a Pair.",
      "The state is unknown.",
      "The input is unknown.",
      "The transition state is unknown.",
      "Non-deterministic transition function. Entries at indexes.",
      "The 'finalStates' argument is not a Set.",
      "Unknown final state.",
      "The start transition function is not a function.",
      "The end transition function is not a function.">>

\* the definition given to the constructor has a violation of this kind
KindViolated(kind) ==
    CASE kind = 1 -> args.inputAlphabet.type # "Set"
      [] kind = 2 -> args.inputAlphabet.type = "Set" /\ ElemsOf(args.inputAlphabet) = {}
      [] kind = 3 -> args.states.type # "Set"
      [] kind = 4 -> args.states.type = "Set" /\ ElemsOf(args.states) = {}
      [] kind = 5 -> ~InitialStateOk
      [] kind = 6 -> args.stateTransitionFunction.type # "Map"
      [] kind = 7 -> args.stateTransitionFunction.type = "Map" /\ GivenEntries = <<>>
      [] kind = 8 -> \E i \in DOMAIN GivenEntries : ~KeyShapeOk(GivenEntries[i])
      [] kind = 9 -> \E i \in DOMAIN GivenEntries :
                         KeyShapeOk(GivenEntries[i]) /\ ~KeyStateOk(GivenEntries[i])
      [] kind = 10 -> \E i \in DOMAIN GivenEntries :
                          KeyShapeOk(GivenEntries[i]) /\ ~KeySymbolOk(GivenEntries[i])
      [] kind = 11 -> \E i \in DOMAIN GivenEntries : ~DestinationOk(GivenEntries[i])
      [] kind = 12 -> ~Deterministic
      [] kind = 13 -> args.finalStates.type \notin {"undefined", "Set"}
      [] kind = 14 -> args.finalStates.type = "Set" /\ ~FinalStatesOk
      [] kind = 15 -> ~StartHookOk
      [] kind = 16 -> ~EndHookOk

\* C19: each of the sixteen kinds of construction violation has an Error of
\* its own: no two kinds share a message, and a failed construction throws
\* the message of exactly one kind, a kind the definition does violate.
C19_EachViolationKindHasItsOwnError ==
    /\ \A j, k \in Kinds : j # k => KindMessage[j] # KindMessage[k]
    /\ pc = "failed" =>
           \E k \in Kinds :
               /\ thrown.message = KindMessage[k]
               /\ KindViolated(k)
               /\ \A j \in Kinds \ {k} : thrown.message # KindMessage[j]

\* a definition with violations of four kinds, reported as the unknown input
C19_Witness ==
    /\ pc = "failed"
    /\ KindViolated(10) /\ KindViolated(11) /\ KindViolated(14) /\ KindViolated(16)
    /\ thrown.message = KindMessage[10]

\* C20: a construction that fails at any step hands out no instance: a
\* machine exists only for a definition that satisfies the nine invariants,
\* and provide is only ever called on such a machine.
C20_NoInvalidMachineEscapes ==
    /\ pc = "failed" => (machine = Undefined /\ thrown # NoError /\ calls = <<>>)
    /\ machine # Undefined => (NineInvariants /\ StartHookOk /\ EndHookOk)
    /\ calls # <<>> => (pc = "ready" /\ machine # Undefined /\ NineInvariants)

\* construction failed at the last step, the check of the end hook, after
\* every other check passed
C20_Witness ==
    /\ pc = "failed"
    /\ NineInvariants /\ StartHookOk /\ ~EndHookOk
    /\ thrown = Error("The end transition function is not a function.", <<>>)
    /\ machine = Undefined
    /\ calls = <<>>

\* the caller changed its transition function Map or its final states Set
\* in this step
CallerChangedMapOrFinalStates ==
    /\ pc = "ready" /\ pc' = "ready"
    /\ \/ args'.stateTransitionFunction # args.stateTransitionFunction
       \/ args'.finalStates # args.finalStates

\* C21: after a successful construction a change of the caller's transition
\* function Map (an entry added, removed or replaced) or of the caller's
\* final states Set changes the result of no later provide call and not the
\* value of isInFinalState.
C21_CallerMapAndFinalStatesAreCopied ==
    [][CallerChangedMapOrFinalStates =>
          /\ \A inputSymbol \in Symbols :
                 provide(machine', inputSymbol) = provide(machine, inputSymbol)
          /\ get_isInFinalState(machine') = get_isInFinalState(machine)
          /\ get_state(machine') = get_state(machine)]_vars

\* a machine constructed from the caller's collections as they are now
MachineOfCurrentArgs ==
    [machine EXCEPT !.stateTransitionFunction = MapOf(args.stateTransitionFunction.entries),
                    !.finalStates = MapOf(SetEntries(args.finalStates))]

\* the caller removed the entry the machine then followed, and the final
\* state the machine is then in
C21_Witness ==
    /\ pc = "ready"
    /\ calls # <<>>
    /\ calls[1].before = "START" /\ calls[1].after = "FINAL"
    /\ get_isInFinalState(machine)
    /\ ~get_isInFinalState(MachineOfCurrentArgs)
    /\ \A i \in DOMAIN args.stateTransitionFunction.entries :
           args.stateTransitionFunction.entries[i].key # PairOf("START", "a")
    /\ provide(machine, "a").self.state # provide(MachineOfCurrentArgs, "a").self.state

\* C22: after a successful construction a change of the input alphabet Set
\* the caller passed (a symbol added or removed) does not change which
\* symbols provide accepts and which it rejects.
C22_AlphabetChangeKeepsAcceptedSymbols ==
    [][(pc = "ready" /\ pc' = "ready" /\ args'.inputAlphabet # args.inputAlphabet) =>
          \A inputSymbol \in Symbols :
              (provide(machine', inputSymbol).error = NoError) <=>
                  (provide(machine, inputSymbol).error = NoError)]_vars

\* C23: provide fails only for a symbol outside the input alphabet: in every
\* state a constructed machine reaches provide succeeds for every symbol of
\* the alphabet, with or without an entry for the state and the symbol; no
\* recorded call with an alphabet symbol threw, and an Error thrown by a call
\* is the unknown symbol Error.
C23_ProvideFailsOnlyOutsideAlphabet ==
    /\ pc = "ready" =>
           \A inputSymbol \in Symbols :
               InAlphabet(inputSymbol) => provide(machine, inputSymbol).error = NoError
    /\ \A i \in DOMAIN calls : calls[i].threw => ~InAlphabet(calls[i].input)
    /\ (pc = "ready" /\ thrown # NoError) =>
           /\ calls # <<>>
           /\ ~InAlphabet(calls[Len(calls)].input)
           /\ thrown = Error("Unknown input symbol provided.", <<calls[Len(calls)].input>>)

\* a run with a matched call, an unmatched call made in another state than
\* the initial state, and a call that failed
C23_Witness ==
    /\ pc = "ready"
    /\ \E i, j, k \in DOMAIN calls :
           /\ Matched(calls[i]) /\ ~calls[i].threw
           /\ Unmatched(calls[j]) /\ ~calls[j].threw /\ calls[j].before # args.initialState
           /\ calls[k].threw
    /\ \E inputSymbol \in Symbols :
           /\ InAlphabet(inputSymbol)
           /\ Destinations(get_state(machine), inputSymbol) = {}

\* the instance as the constructor built it from the arguments
MachineAsConstructed ==
    constructor(args.inputAlphabet, args.states, args.initialState,
                args.stateTransitionFunction, args.finalStates,
                args.startTransitionFunction, args.endTransitionFunction).self

\* C25: a provide call changes nothing but the current state: after any
\* sequence of provide calls the input alphabet, the transition function, the
\* final states, the initial state and the hooks of the machine are the ones
\* the constructor set, and the arguments the caller passed are as they were.
C25_ProvideChangesOnlyCurrentState ==
    pc = "ready" =>
        /\ machine = [MachineAsConstructed EXCEPT !.state = get_state(machine)]
        /\ \A i \in DOMAIN calls :
               LET receiver == [machine EXCEPT !.state = calls[i].before]
               IN  provide(receiver, calls[i].input).self =
                       [receiver EXCEPT !.state = calls[i].after]

\* after a matched call that moved the machine, an unmatched call and a call
\* that failed, the machine is in another state than the one it started in
C25_Witness ==
    /\ pc = "ready"
    /\ Len(calls) = MaxCalls
    /\ get_state(machine) # get_initialState(machine)
    /\ get_isInFinalState(machine)
    /\ \E i, j, k \in DOMAIN calls :
           /\ Matched(calls[i]) /\ calls[i].before # calls[i].after
           /\ Unmatched(calls[j])
           /\ calls[k].threw

\* the symbols the scenario feeds and the states it expects after each
ScenarioInputs == <<"a", "b", "b", "c", "b", "a">>
ScenarioStates == <<"START", "MID", "MID", "START", "MID", "FINAL">>

\* the first k calls were made with the first k symbols of the scenario
FedScenarioUpTo(k) ==
    /\ k <= Len(calls) /\ k <= Len(ScenarioInputs)
    /\ \A i \in 1..k : calls[i].input = ScenarioInputs[i]

\* C27: the machine over {a,b,c} and {START,MID,FINAL} fed a,b,b,c,b,a is in
\* START, MID, MID, START, MID, FINAL after the successive calls, invokes the
\* start hook and the end hook once on each of the six calls, and ends with
\* isInFinalState true.
C27_ScenarioStateSequence ==
    /\ \A k \in DOMAIN calls :
           FedScenarioUpTo(k) =>
               /\ ~calls[k].threw
               /\ calls[k].before = (IF k = 1 THEN "START" ELSE ScenarioStates[k - 1])
               /\ calls[k].after = ScenarioStates[k]
               /\ Len(calls[k].hooks) = 2
               /\ calls[k].hooks[1].hook = "start"
               /\ calls[k].hooks[1].args = <<calls[k].before, ScenarioInputs[k], ScenarioStates[k]>>
               /\ calls[k].hooks[1].observed = calls[k].before
               /\ calls[k].hooks[2].hook = "end"
               /\ calls[k].hooks[2].observed = ScenarioStates[k]
               /\ k > 1 => chained
    /\ (Len(calls) = Len(ScenarioInputs) /\ FedScenarioUpTo(Len(ScenarioInputs))) =>
           /\ get_state(machine) = "FINAL"
           /\ get_isInFinalState(machine)

C27_Witness ==
    /\ pc = "ready"
    /\ Len(calls) = 6
    /\ FedScenarioUpTo(6)
    /\ [i \in 1..6 |-> calls[i].after] = ScenarioStates
    /\ get_isInFinalState(machine)

\* the hook invocations of the first k calls, in the order they were made
RECURSIVE HookTrace(_)
HookTrace(k) == IF k = 0 THEN <<>> ELSE HookTrace(k - 1) \o calls[k].hooks

\* the matched calls among the first k calls, oldest first
RECURSIVE MatchedCalls(_)
MatchedCalls(k) ==
    IF k = 0 THEN <<>>
    ELSE IF Matched(calls[k]) THEN Append(MatchedCalls(k - 1), calls[k])
    ELSE MatchedCalls(k - 1)

\* C28: with hooks that do not re-enter provide, the hook invocations over
\* any sequence of provide calls are start, end, start, end, ...: one start
\* invocation followed by one end invocation for each matched call, made
\* within that call, the pairs in the order of the matched calls and as many
\* pairs as matched calls.
C28_HookTraceAlternates ==
    LET trace == HookTrace(Len(calls))
        matched == MatchedCalls(Len(calls))
    IN  /\ Len(trace) = 2 * Len(matched)
        /\ \A p \in DOMAIN matched :
               /\ trace[2 * p - 1].hook = "start"
               /\ trace[2 * p - 1].args = <<matched[p].before, matched[p].input, matched[p].after>>
               /\ trace[2 * p].hook = "end"
               /\ trace[2 * p].args = <<matched[p].after, matched[p].input, matched[p].before>>
               /\ matched[p].hooks = <<trace[2 * p - 1], trace[2 * p]>>
        /\ \A i \in DOMAIN calls : ~Matched(calls[i]) => calls[i].hooks = <<>>

\* three calls of which the first and the last are matched, with an unmatched
\* or failed call between them
C28_Witness ==
    /\ Len(calls) = 3
    /\ Matched(calls[1]) /\ ~Matched(calls[2]) /\ Matched(calls[3])
    /\ calls[1].before # calls[1].after
    /\ Len(HookTrace(3)) = 4
    /\ HookTrace(3)[3].hook = "start" /\ HookTrace(3)[3].args[1] = calls[1].after

\* C29: one provide(x) call performs at most one transition: when the
\* entries (s, x) -> n and (n, x) -> p both exist and the current state is s,
\* provide(x) ends in n and invokes each hook once, although the scan goes on
\* over the entry (n, x) -> p after the state has become n.
C29_AtMostOneTransitionPerCall ==
    \A i \in DOMAIN calls :
        \A n \in Destinations(calls[i].before, calls[i].input) :
            (InAlphabet(calls[i].input) /\ Destinations(n, calls[i].input) # {}) =>
                /\ calls[i].after = n
                /\ Len(calls[i].hooks) = 2
                /\ Len(HookCalls(calls[i], "start")) = 1
                /\ Len(HookCalls(calls[i], "end")) = 1
                /\ i = Len(calls) => get_state(machine) = n

\* the entry (START, a) -> FINAL is visited before the entry (FINAL, a) ->
\* START, and provide(a) in START ends in FINAL
C29_Witness ==
    /\ pc = "ready"
    /\ args.stateTransitionFunction.entries =
           <<[key |-> PairOf("START", "a"), value |-> "FINAL"],
             [key |-> PairOf("FINAL", "a"), value |-> "START"]>>
    /\ calls # <<>>
    /\ calls[Len(calls)].before = "START" /\ calls[Len(calls)].input = "a"
    /\ get_state(machine) = "FINAL"

\* C30: a matching entry whose destination is the current state is a
\* transition like any other: provide invokes the start hook and the end
\* hook once each, with the state as the state left and the state entered,
\* and the current state keeps its value.
C30_SelfLoopIsATransition ==
    \A i \in DOMAIN calls :
        (Matched(calls[i]) /\ Destinations(calls[i].before, calls[i].input) = {calls[i].before}) =>
            /\ ~calls[i].threw
            /\ calls[i].after = calls[i].before
            /\ Len(calls[i].hooks) = 2
            /\ calls[i].hooks[1].hook = "start"
            /\ calls[i].hooks[1].args = <<calls[i].before, calls[i].input, calls[i].before>>
            /\ calls[i].hooks[2].hook = "end"
            /\ calls[i].hooks[2].args = <<calls[i].before, calls[i].input, calls[i].before>>
            /\ i = Len(calls) => get_state(machine) = calls[i].before

\* a self-loop followed in another state than the initial state
C30_Witness ==
    \E i \in DOMAIN calls :
        /\ Matched(calls[i])
        /\ Destinations(calls[i].before, calls[i].input) = {calls[i].before}
        /\ calls[i].before # args.initialState
        /\ Len(calls[i].hooks) = 2
        /\ i = Len(calls)
        /\ get_state(machine) = calls[i].before

\* the hook about to be invoked calls provide at the deepest nesting that is
\* followed: the run goes on in the program and is not followed further here
AtMaxDepth ==
    /\ Len(stack) = MaxDepth
    /\ \/ /\ Top.at = "start"
          /\ HookDoes(machine.startTransitionFunction, Top.exitArgs) = "provide"
       \/ /\ Top.at = "end"
          /\ HookDoes(machine.endTransitionFunction, reverse(Top.exitArgs)) = "provide"

\* C26: every provide call completes, by returning the machine or by
\* failing, in every state, for every symbol and for hooks that return, throw
\* or call provide on the same machine, in every run in which provide calls
\* are nested at most MaxDepth deep.
C26_ProvideCompletes ==
    (stack # <<>>) ~>
        \/ /\ stack = <<>>
           /\ calls # <<>>
           /\ \/ calls[Len(calls)].threw /\ thrown # NoError
              \/ calls[Len(calls)].returned = This /\ thrown = NoError
        \/ AtMaxDepth

\* a call whose start hook and whose end hook both called provide on the
\* machine has returned, after the two inner calls invoked the hooks again
C26_Witness ==
    /\ stack = <<>>
    /\ calls # <<>>
    /\ machine.startTransitionFunction.does = "provide"
    /\ machine.endTransitionFunction.does = "provide"
    /\ calls[Len(calls)].returned = This
    /\ Len(calls[Len(calls)].hooks) = 6

\* C31: in every reachable state of a constructed machine, after any
\* sequence of provide calls, the current state is a member of the state set
\* given to the constructor, and so is the state every call started in and
\* ended in.
C31_StateStaysInStateSet ==
    pc = "ready" =>
        /\ get_state(machine) \in ElemsOf(args.states)
        /\ \A i \in DOMAIN calls :
               /\ calls[i].before \in ElemsOf(args.states)
               /\ calls[i].after \in ElemsOf(args.states)
               /\ \A k \in DOMAIN calls[i].hooks :
                      calls[i].hooks[k].observed \in ElemsOf(args.states)

\* the machine has left its initial state and come back to it, and a call
\* was made that moved it nowhere
C31_Witness ==
    /\ pc = "ready"
    /\ Len(calls) = MaxCalls
    /\ calls[1].after # args.initialState
    /\ get_state(machine) = args.initialState
    /\ \E i \in DOMAIN calls : calls[i].hooks = <<>>
    /\ ElemsOf(args.states) = {"START", "FINAL"}

\* the hook fails when it is invoked for the input symbol x: it throws, or it
\* calls provide with a symbol outside the alphabet
FailsOn(hook, x) ==
    /\ "does" \in DOMAIN hook
    /\ hook.on \in {"any", x}
    /\ \/ hook.does = "throw"
       \/ hook.does = "provide" /\ ~InAlphabet(hook.symbol)

\* the calls of provide that have completed, by returning or by throwing
Completed == {i \in DOMAIN calls : i < Len(calls) \/ stack = <<>>}

\* C32: if the start hook fails during a matched provide call, the failure
\* propagates out of provide, the current state is still the pre-transition
\* state, and the end hook is not invoked for that call: the call's only hook
\* invocation is that of the start hook. The same holds of a provide call
\* made by a hook: when the start hook's failure is what came out of the
\* outermost call, the last hook invoked is the start hook and the current
\* state is the state it was told the machine is leaving.
C32_StartHookFailureKeepsState ==
    pc = "ready" =>
        /\ \A i \in Completed :
               (/\ Destinations(calls[i].before, calls[i].input) # {}
                /\ InAlphabet(calls[i].input)
                /\ FailsOn(machine.startTransitionFunction, calls[i].input))
               => /\ calls[i].threw
                  /\ calls[i].after = calls[i].before
                  /\ Len(calls[i].hooks) = 1
                  /\ calls[i].hooks[1].hook = "start"
                  /\ calls[i].hooks[1].args[1] = calls[i].before
                  /\ calls[i].hooks[1].args[2] = calls[i].input
                  /\ calls[i].hooks[1].args[3] \in
                         Destinations(calls[i].before, calls[i].input)
                  /\ (i = Len(calls) =>
                         /\ thrown # NoError
                         /\ get_state(machine) = calls[i].before)
        /\ (stack = <<>> /\ thrown = Error("The hook failed.", <<"start">>))
           => /\ calls # <<>>
              /\ calls[Len(calls)].threw
              /\ calls[Len(calls)].hooks # <<>>
              /\ LET hooks == calls[Len(calls)].hooks
                 IN /\ hooks[Len(hooks)].hook = "start"
                    /\ hooks[Len(hooks)].args[1] = get_state(machine)
                    /\ hooks[Len(hooks)].observed = get_state(machine)

\* a call moved the machine to MID, and the next call, matched from MID,
\* failed in its start hook and left the machine in MID
C32_Witness ==
    /\ pc = "ready"
    /\ stack = <<>>
    /\ Len(calls) = 2
    /\ ~calls[1].threw
    /\ calls[1].after = "MID"
    /\ calls[2].before = "MID"
    /\ Destinations("MID", calls[2].input) = {"START"}
    /\ FailsOn(machine.startTransitionFunction, calls[2].input)
    /\ calls[2].threw
    /\ thrown = Error("The hook failed.", <<"start">>)
    /\ get_state(machine) = "MID"
    /\ Len(calls[2].hooks) = 1

\* the hook neither fails nor calls provide when it is invoked for the input
\* symbol x
ReturnsOn(hook, x) == HookDoes(hook, <<"", x, "">>) = "return"

\* C33: if the end hook fails during a matched provide call, the failure
\* propagates out of provide but the transition is not rolled back: the
\* current state after the failed call is the destination state of the
\* matched entry. The start hook was invoked first and saw the state being
\* left; the end hook saw the destination.
C33_EndHookFailureKeepsTransition ==
    pc = "ready" =>
        \A i \in Completed :
            (/\ Matched(calls[i])
             /\ ReturnsOn(machine.startTransitionFunction, calls[i].input)
             /\ FailsOn(machine.endTransitionFunction, calls[i].input))
            => /\ calls[i].threw
               /\ calls[i].returned = Undefined
               /\ Destinations(calls[i].before, calls[i].input) = {calls[i].after}
               /\ Len(calls[i].hooks) = 2
               /\ calls[i].hooks[1].hook = "start"
               /\ calls[i].hooks[1].observed = calls[i].before
               /\ calls[i].hooks[2].hook = "end"
               /\ calls[i].hooks[2].observed = calls[i].after
               /\ calls[i].hooks[2].args =
                      <<calls[i].after, calls[i].input, calls[i].before>>
               /\ (i = Len(calls) =>
                      /\ thrown # NoError
                      /\ get_state(machine) = calls[i].after)

\* a matched call failed in its end hook and left the machine in the
\* destination, a state other than the one it started in, from where the
\* next call went on
C33_Witness ==
    /\ pc = "ready"
    /\ stack = <<>>
    /\ Len(calls) = 2
    /\ Matched(calls[1])
    /\ ReturnsOn(machine.startTransitionFunction, calls[1].input)
    /\ FailsOn(machine.endTransitionFunction, calls[1].input)
    /\ calls[1].threw
    /\ calls[1].after # calls[1].before
    /\ calls[2].before = calls[1].after
    /\ Matched(calls[2])
    /\ ~calls[2].threw
    /\ thrown = NoError

\* the hook calls provide when it is invoked for the input symbol x
ReentersOn(hook, x) == HookDoes(hook, <<"", x, "">>) = "provide"

\* C34: if the start hook of a matched transition (s, x) -> n re-enters
\* provide on the same machine and that inner call moves the machine to
\* another state m, the outer call overwrites it: when the outer provide
\* returns the current state is n, and the outer end hook is still invoked
\* with s as the state that was left. The inner call ran between the outer
\* start hook and the outer assignment: it started from s, and its hooks are
\* the second and third invocations of the outer call.
C34_StartHookReentryIsOverwritten ==
    pc = "ready" =>
        \A i \in Completed :
            (/\ Matched(calls[i])
             /\ ReentersOn(machine.startTransitionFunction, calls[i].input)
             /\ ~ReentersOn(machine.endTransitionFunction, calls[i].input)
             /\ calls[i].returned = This)
            => LET c == calls[i]
                   y == machine.startTransitionFunction.symbol
                   last == c.hooks[Len(c.hooks)]
               IN /\ ~c.threw
                  /\ Destinations(c.before, c.input) = {c.after}
                  /\ (i = Len(calls) => get_state(machine) = c.after)
                  /\ Len(c.hooks) >= 2
                  /\ c.hooks[1].hook = "start"
                  /\ c.hooks[1].args = <<c.before, c.input, c.after>>
                  /\ last.hook = "end"
                  /\ last.args = <<c.after, c.input, c.before>>
                  /\ last.observed = c.after
                  /\ \A m \in Destinations(c.before, y) :
                         /\ Len(c.hooks) = 4
                         /\ c.hooks[2].hook = "start"
                         /\ c.hooks[2].args = <<c.before, y, m>>
                         /\ c.hooks[2].observed = c.before
                         /\ c.hooks[3].hook = "end"
                         /\ c.hooks[3].args = <<m, y, c.before>>
                         /\ c.hooks[3].observed = m
                  /\ (Destinations(c.before, y) = {} => Len(c.hooks) = 2)

\* the start hook of (START, a) -> FINAL provided b, the inner call moved the
\* machine to MID, and the outer call returned with the machine in FINAL
C34_Witness ==
    /\ pc = "ready"
    /\ stack = <<>>
    /\ Len(calls) = 1
    /\ ReentersOn(machine.startTransitionFunction, calls[1].input)
    /\ calls[1].returned = This
    /\ calls[1].before = "START"
    /\ calls[1].after = "FINAL"
    /\ Len(calls[1].hooks) = 4
    /\ calls[1].hooks[3].observed = "MID"
    /\ calls[1].hooks[4].args = <<"FINAL", "a", "START">>
    /\ get_state(machine) = "FINAL"

\* C35: if the end hook of a matched transition (s, x) -> n re-enters
\* provide on the same machine, the inner call starts from n, and the state
\* it reaches is kept: when the outer provide returns, the current state is
\* the state reached by the inner call, and the outer call fires no further
\* hook after the inner call returns. The invocations of the outer call are
\* its start hook, its end hook, and then those of the inner call alone; when
\* the end hook re-enters again in the inner call, each call starts from the
\* state the call before it reached.
C35_EndHookReentryIsKept ==
    pc = "ready" =>
        \A i \in Completed :
            LET c == calls[i]
                y == machine.endTransitionFunction.symbol
            IN (/\ Matched(c)
                /\ ReentersOn(machine.endTransitionFunction, c.input)
                /\ ReturnsOn(machine.startTransitionFunction, c.input)
                /\ ReturnsOn(machine.startTransitionFunction, y)
                /\ c.returned = This)
               => /\ ~c.threw
                  /\ Len(c.hooks) >= 2
                  /\ c.hooks[1].hook = "start"
                  /\ c.hooks[1].args[1] = c.before
                  /\ c.hooks[1].args[2] = c.input
                  /\ Destinations(c.before, c.input) = {c.hooks[1].args[3]}
                  /\ \A k \in DOMAIN c.hooks :
                         IF k % 2 = 1
                         THEN /\ c.hooks[k].hook = "start"
                              /\ c.hooks[k].observed = c.hooks[k].args[1]
                              /\ k < Len(c.hooks)
                              /\ k > 1 =>
                                   /\ c.hooks[k].args[1] = c.hooks[k - 1].args[1]
                                   /\ c.hooks[k].args[2] = y
                         ELSE /\ c.hooks[k].hook = "end"
                              /\ c.hooks[k].observed = c.hooks[k].args[1]
                              /\ c.hooks[k].args = reverse(c.hooks[k - 1].args)
                  /\ c.after = c.hooks[Len(c.hooks)].args[1]
                  /\ (i = Len(calls) => get_state(machine) = c.after)
                  /\ (~ReentersOn(machine.endTransitionFunction, y) =>
                         LET n == c.hooks[1].args[3]
                         IN /\ \A p \in Destinations(n, y) :
                                   /\ Len(c.hooks) = 4
                                   /\ c.hooks[3].args = <<n, y, p>>
                                   /\ c.after = p
                            /\ (Destinations(n, y) = {} =>
                                   /\ Len(c.hooks) = 2
                                   /\ c.after = n))

\* the end hook of (START, a) -> FINAL provided b, the inner call started
\* from FINAL and moved the machine to MID, a state from which a has an entry
\* later in the map, and the outer call returned with the machine in MID
C35_Witness ==
    /\ pc = "ready"
    /\ stack = <<>>
    /\ Len(calls) = 1
    /\ ReentersOn(machine.endTransitionFunction, calls[1].input)
    /\ ReturnsOn(machine.startTransitionFunction, calls[1].input)
    /\ calls[1].returned = This
    /\ calls[1].before = "START"
    /\ calls[1].input = "a"
    /\ Len(calls[1].hooks) = 4
    /\ calls[1].hooks[2].args = <<"FINAL", "a", "START">>
    /\ calls[1].hooks[3].args = <<"FINAL", "b", "MID">>
    /\ calls[1].hooks[3].observed = "FINAL"
    /\ calls[1].after = "MID"
    /\ get_state(machine) = "MID"
    /\ Destinations("MID", "a") # {}

====
